---------------------------- MODULE Spec2Model ----------------------------
(***************************************************************************)
(* Backlog Pilot: the HTTP API of src/server/src/app.js over the           *)
(* file-backed store (the JSON document holding data.projects and          *)
(* data.items), and the relational variant's reorder transaction.          *)
(*                                                                         *)
(* Text values (names, secret keys, titles, descriptions) are sequences of *)
(* one-character strings, so that String.prototype.trim is modelled by     *)
(* what it does.  Ids produced by randomUUID are fresh naturals.           *)
(***************************************************************************)
EXTENDS Integers, Sequences, FiniteSets, TLC

(***************************************************************************)
(* Bounds of the model.                                                    *)
(***************************************************************************)
\* randomUUID calls made by createProject over a run
MaxProjects == 2
\* randomUUID calls made by createItem over a run of the access model
MaxItems == 1
\* randomUUID calls made by createItem over a run of the board model
MaxBoardItems == 2
\* ids listed by one reorder payload, all columns together
MaxReorderIds == 2
\* items stored when the statement-by-statement reorder begins
MaxTxItems == 2
\* items created in the store two projects share
MaxSharedItems == 2
\* the largest position of the board model: moving items back and forth
\* between two columns raises max+1 without end
MaxPosition == 3
\* processes (or requests of one process) that write the store at a time
MaxWriters == 2

VARIABLES
    projects,       \* data.projects of the store document
    items,          \* data.items of the store document
    nextProjectId,  \* the next id randomUUID gives a project
    nextItemId,     \* the next id randomUUID gives an item
    clock,          \* the wall clock read by new Date()
    request,        \* the request the server handled last
    response,       \* the response it sent
    backend,        \* "file" or "postgres": the store chosen at process start
    pc,             \* where the reorder in flight stands
    todo,           \* the writes the reorder in flight has still to make
    work,           \* its uncommitted items: data.items in memory, or the
                    \* row versions of its transaction
    snapshot,       \* the stored items when it began
    observed,       \* the listing a reader got while it was in flight
    malformed,      \* the text of the store file does not parse as JSON
    writers,        \* per concurrent writer, where its item request stands
    heap,           \* the item objects of the client, by reference
    boardColumns,   \* App state `columns`: per status, references to items
    previous,       \* handleDragEnd's `previous`: per status, references
    error,          \* App state `error`
    busy,           \* App state `busy`
    clientPc,       \* where the drag handler of the client stands
    reorderCalls,   \* calls of api.reorderItems made for the drag
    reply,          \* what api.reorderItems settled with
    fetched,        \* what fetchBoard settled with
    shown,          \* the columns the board showed when the drag began
    columnsState,   \* App state `columns` of the session model: per status,
                    \* the item values
    calls,          \* the handler invocations of the session, in the order
                    \* they began
    dropped         \* the result the drag-and-drop library reported last

\* the state of a reorder that runs statement by statement
reorderVars == <<backend, pc, todo, work, snapshot, observed>>

\* the state of the browser client
\* the state of a browser session whose requests overlap
sessionVars == <<columnsState, calls, dropped>>

clientVars == <<heap, boardColumns, previous, error, busy, clientPc,
                reorderCalls, reply, fetched, shown, sessionVars>>

vars == <<projects, items, nextProjectId, nextItemId, clock, request, response,
          malformed, reorderVars, writers, clientVars>>

(***************************************************************************)
(* JavaScript values.                                                      *)
(***************************************************************************)
\* a text field that the JSON body or the headers do not carry
Undefined == <<"undefined">>
\* a status field that the JSON body does not carry
UndefinedStatus == "undefined"
\* a column of a reorder payload that is not an array (a number, an object)
NotArray == <<-1>>

IsWhitespace(c) == c = " "

RECURSIVE trimStart(_)
trimStart(s) ==
    IF s # <<>> /\ IsWhitespace(Head(s)) THEN trimStart(Tail(s)) ELSE s

RECURSIVE trimEnd(_)
trimEnd(s) ==
    IF s # <<>> /\ IsWhitespace(s[Len(s)])
    THEN trimEnd(SubSeq(s, 1, Len(s) - 1))
    ELSE s

\* String.prototype.trim
trim(s) == trimEnd(trimStart(s))

\* (value || ''): undefined and the empty string both give ''
OrEmpty(v) == IF v = Undefined THEN <<>> ELSE v

(***************************************************************************)
(* The store module (file-backed).                                         *)
(***************************************************************************)
VALID_STATUSES == <<"backlog", "in_progress", "review", "done">>

DEFAULT_DATA == [projects |-> <<>>, items |-> <<>>]

Range(s) == {s[i] : i \in DOMAIN s}

\* validateStatus: TRUE when it does not throw
validateStatus(status) == status \in Range(VALID_STATUSES)

\* Array.prototype.find: the first element satisfying the test, as a
\* sequence of at most one element (<<>> for undefined)
FindFirst(seq, Test(_)) ==
    LET hits == SelectSeq(seq, Test) IN
    IF hits = <<>> THEN <<>> ELSE <<Head(hits)>>

getProjectById(data, projectId) ==
    LET Match(project) == project.id = projectId IN
    FindFirst(data.projects, Match)

\* getProjectBySecret comparing the key as sent, untrimmed
getProjectBySecretNoTrim(data, secretKey) ==
    LET Match(project) == project.secretKey = OrEmpty(secretKey)
    IN  IF OrEmpty(secretKey) = <<>> THEN <<>> ELSE FindFirst(data.projects, Match)

getProjectBySecret(data, secretKey) ==
    LET normalizedKey == trim(OrEmpty(secretKey))
        Match(project) == project.secretKey = normalizedKey
    IN  IF normalizedKey = <<>> THEN <<>> ELSE FindFirst(data.projects, Match)

listProjects(data) == data.projects

\* createProject looking for the key as sent, untrimmed, among the stored keys
createProjectRawCompare(data, name, secretKey, id, now) ==
    LET normalizedName == trim(OrEmpty(name))
        normalizedKey == trim(OrEmpty(secretKey))
        SameKey(project) == project.secretKey = OrEmpty(secretKey)
        newProject == [id |-> id, name |-> normalizedName,
                       secretKey |-> normalizedKey, createdAt |-> now]
    IN  IF normalizedName = <<>>
        THEN [error |-> "Project name is required.", data |-> data]
        ELSE IF normalizedKey = <<>>
        THEN [error |-> "Secret key is required.", data |-> data]
        ELSE IF SelectSeq(data.projects, SameKey) # <<>>
        THEN [error |-> "Secret key already exists. Choose a different one.",
              data |-> data]
        ELSE [error |-> "",
              data |-> [data EXCEPT !.projects = Append(@, newProject)],
              project |-> newProject]

\* createProject refusing a key only when the name is taken too
createProjectPerName(data, name, secretKey, id, now) ==
    LET normalizedName == trim(OrEmpty(name))
        normalizedKey == trim(OrEmpty(secretKey))
        SameKey(project) ==
            project.secretKey = normalizedKey /\ project.name = normalizedName
        newProject == [id |-> id, name |-> normalizedName,
                       secretKey |-> normalizedKey, createdAt |-> now]
    IN  IF normalizedName = <<>>
        THEN [error |-> "Project name is required.", data |-> data]
        ELSE IF normalizedKey = <<>>
        THEN [error |-> "Secret key is required.", data |-> data]
        ELSE IF SelectSeq(data.projects, SameKey) # <<>>
        THEN [error |-> "Secret key already exists. Choose a different one.",
              data |-> data]
        ELSE [error |-> "",
              data |-> [data EXCEPT !.projects = Append(@, newProject)],
              project |-> newProject]

\* createProject storing whatever key it is given, the empty one too
createProjectAnySecret(data, name, secretKey, id, now) ==
    LET normalizedName == trim(OrEmpty(name))
        normalizedKey == trim(OrEmpty(secretKey))
        SameKey(project) == project.secretKey = normalizedKey
        newProject == [id |-> id, name |-> normalizedName,
                       secretKey |-> normalizedKey, createdAt |-> now]
    IN  IF normalizedName = <<>>
        THEN [error |-> "Project name is required.", data |-> data]
        ELSE IF SelectSeq(data.projects, SameKey) # <<>>
        THEN [error |-> "Secret key already exists. Choose a different one.",
              data |-> data]
        ELSE [error |-> "",
              data |-> [data EXCEPT !.projects = Append(@, newProject)],
              project |-> newProject]

\* createProject: [error] when it throws, else the written document and the
\* new project
createProject(data, name, secretKey, id, now) ==
    LET normalizedName == trim(OrEmpty(name))
        normalizedKey == trim(OrEmpty(secretKey))
        SameKey(project) == project.secretKey = normalizedKey
        newProject == [id |-> id, name |-> normalizedName,
                       secretKey |-> normalizedKey, createdAt |-> now]
    IN  IF normalizedName = <<>>
        THEN [error |-> "Project name is required.", data |-> data]
        ELSE IF normalizedKey = <<>>
        THEN [error |-> "Secret key is required.", data |-> data]
        ELSE IF SelectSeq(data.projects, SameKey) # <<>>
        THEN [error |-> "Secret key already exists. Choose a different one.",
              data |-> data]
        ELSE [error |-> "",
              data |-> [data EXCEPT !.projects = Append(@, newProject)],
              project |-> newProject]

\* deleteProject removing the project and keeping its items
deleteProjectOnly(data, projectId) ==
    LET Other(project) == project.id # projectId
    IN  IF getProjectById(data, projectId) = <<>>
        THEN [success |-> FALSE, data |-> data]
        ELSE [success |-> TRUE,
              data |-> [projects |-> SelectSeq(data.projects, Other),
                        items |-> data.items]]

\* deleteProject: removes the project and its items
deleteProject(data, projectId) ==
    LET Other(project) == project.id # projectId
        NotOfProject(item) == item.projectId # projectId
    IN  IF getProjectById(data, projectId) = <<>>
        THEN [success |-> FALSE, data |-> data]
        ELSE [success |-> TRUE,
              data |-> [projects |-> SelectSeq(data.projects, Other),
                        items |-> SelectSeq(data.items, NotOfProject)]]


(***************************************************************************)
(* Items.  An item is [id, projectId, title, description, status,          *)
(* position]; createdAt and updatedAt hold the wall clock and decide       *)
(* nothing, so they are left out.                                          *)
(***************************************************************************)
SetMax(S) == CHOOSE m \in S : \A x \in S : x <= m

\* nextPositionForStatus counting the column instead of taking its maximum
nextPositionByCount(data, projectId, status) ==
    LET InColumn(item) == item.projectId = projectId /\ item.status = status
    IN  Len(SelectSeq(data.items, InColumn)) + 1

nextPositionForStatus(data, projectId, status) ==
    LET InColumn(item) == item.projectId = projectId /\ item.status = status
        column == SelectSeq(data.items, InColumn)
    IN  IF Len(column) = 0
        THEN 1
        ELSE SetMax({column[i].position : i \in DOMAIN column}) + 1

\* String.prototype.localeCompare on the four status names
LocaleOrder == <<"backlog", "done", "in_progress", "review">>

localeRank(status) == CHOOSE i \in DOMAIN LocaleOrder : LocaleOrder[i] = status

\* the comparator of getItemsByProject: negative, zero or positive
compareItems(a, b) ==
    IF a.status = b.status
    THEN a.position - b.position
    ELSE localeRank(a.status) - localeRank(b.status)

\* Array.prototype.sort is stable: x goes behind every element that does not
\* compare greater
RECURSIVE insertSorted(_, _)
insertSorted(sorted, x) ==
    IF sorted = <<>> THEN <<x>>
    ELSE IF compareItems(Head(sorted), x) <= 0
    THEN <<Head(sorted)>> \o insertSorted(Tail(sorted), x)
    ELSE <<x>> \o sorted

RECURSIVE stableSort(_)
stableSort(seq) ==
    IF seq = <<>> THEN <<>>
    ELSE insertSorted(stableSort(SubSeq(seq, 1, Len(seq) - 1)), seq[Len(seq)])

\* getItemsByProject without its filter
getItemsOfAllProjects(data, projectId) == stableSort(data.items)

getItemsByProject(data, projectId) ==
    LET OfProject(item) == item.projectId = projectId IN
    stableSort(SelectSeq(data.items, OfProject))

createItem(data, projectId, title, description, status, id) ==
    LET normalizedTitle == trim(OrEmpty(title))
        theStatus == IF status = UndefinedStatus THEN "backlog" ELSE status
        theDescription == IF description = Undefined THEN <<>> ELSE description
        newItem == [id |-> id, projectId |-> projectId,
                    title |-> normalizedTitle,
                    description |-> trim(OrEmpty(theDescription)),
                    status |-> theStatus,
                    position |-> nextPositionForStatus(data, projectId, theStatus)]
    IN  IF normalizedTitle = <<>>
        THEN [error |-> "Item title is required.", data |-> data]
        ELSE IF ~validateStatus(theStatus)
        THEN [error |-> "Invalid status", data |-> data]
        ELSE IF getProjectById(data, projectId) = <<>>
        THEN [error |-> "Project not found.", data |-> data]
        ELSE [error |-> "",
              data |-> [data EXCEPT !.items = Append(@, newItem)],
              item |-> newItem]

\* findIndex looking for the id alone, in whatever project
itemIndexAnyProject(data, projectId, itemId) ==
    LET hits == {i \in DOMAIN data.items : data.items[i].id = itemId}
    IN  IF hits = {} THEN 0 ELSE CHOOSE i \in hits : \A j \in hits : i <= j

\* findIndex: the first index satisfying the test, 0 for -1
itemIndex(data, projectId, itemId) ==
    LET hits == {i \in DOMAIN data.items :
                    /\ data.items[i].id = itemId
                    /\ data.items[i].projectId = projectId}
    IN  IF hits = {} THEN 0 ELSE CHOOSE i \in hits : \A j \in hits : i <= j

\* updateItem changing the status and keeping the position
updateItemKeepPosition(data, projectId, itemId, title, description, status) ==
    LET index == itemIndex(data, projectId, itemId)
        item == data.items[index]
        newTitle == trim(title)
        withTitle == IF title # Undefined
                     THEN [item EXCEPT !.title = newTitle] ELSE item
        withDescription == IF description # Undefined
                           THEN [withTitle EXCEPT !.description = trim(description)]
                           ELSE withTitle
        updatedItem ==
            IF status # UndefinedStatus /\ status # item.status
            THEN [withDescription EXCEPT !.status = status]
            ELSE withDescription
    IN  IF index = 0
        THEN [error |-> "Item not found.", data |-> data]
        ELSE IF title # Undefined /\ newTitle = <<>>
        THEN [error |-> "Item title cannot be empty.", data |-> data]
        ELSE IF status # UndefinedStatus /\ ~validateStatus(status)
        THEN [error |-> "Invalid status", data |-> data]
        ELSE [error |-> "",
              data |-> [data EXCEPT !.items[index] = updatedItem],
              item |-> updatedItem]

\* updateItem appending the item whenever a status is sent
updateItemAlwaysAppends(data, projectId, itemId, title, description, status) ==
    LET index == itemIndex(data, projectId, itemId)
        item == data.items[index]
        newTitle == trim(title)
        withTitle == IF title # Undefined
                     THEN [item EXCEPT !.title = newTitle] ELSE item
        withDescription == IF description # Undefined
                           THEN [withTitle EXCEPT !.description = trim(description)]
                           ELSE withTitle
        updatedItem ==
            IF status # UndefinedStatus
            THEN [withDescription EXCEPT
                    !.status = status,
                    !.position = nextPositionForStatus(data, projectId, status)]
            ELSE withDescription
    IN  IF index = 0
        THEN [error |-> "Item not found.", data |-> data]
        ELSE IF title # Undefined /\ newTitle = <<>>
        THEN [error |-> "Item title cannot be empty.", data |-> data]
        ELSE IF status # UndefinedStatus /\ ~validateStatus(status)
        THEN [error |-> "Invalid status", data |-> data]
        ELSE [error |-> "",
              data |-> [data EXCEPT !.items[index] = updatedItem],
              item |-> updatedItem]

\* updateItem storing the fields it can and skipping the ones it cannot
updateItemUnvalidated(data, projectId, itemId, title, description, status) ==
    LET index == itemIndex(data, projectId, itemId)
        item == data.items[index]
        newTitle == trim(title)
        withTitle == IF title # Undefined /\ newTitle # <<>>
                     THEN [item EXCEPT !.title = newTitle] ELSE item
        withDescription == IF description # Undefined
                           THEN [withTitle EXCEPT !.description = trim(description)]
                           ELSE withTitle
        updatedItem ==
            IF status # UndefinedStatus /\ validateStatus(status)
                  /\ status # item.status
            THEN [withDescription EXCEPT
                    !.status = status,
                    !.position = nextPositionForStatus(data, projectId, status)]
            ELSE withDescription
    IN  IF index = 0
        THEN [error |-> "Item not found.", data |-> data]
        ELSE [error |-> "",
              data |-> [data EXCEPT !.items[index] = updatedItem],
              item |-> updatedItem]

updateItem(data, projectId, itemId, title, description, status) ==
    LET index == itemIndex(data, projectId, itemId)
        item == data.items[index]
        newTitle == trim(title)
        withTitle == IF title # Undefined
                     THEN [item EXCEPT !.title = newTitle] ELSE item
        withDescription == IF description # Undefined
                           THEN [withTitle EXCEPT !.description = trim(description)]
                           ELSE withTitle
        updatedItem ==
            IF status # UndefinedStatus /\ status # item.status
            THEN [withDescription EXCEPT
                    !.status = status,
                    !.position = nextPositionForStatus(data, projectId, status)]
            ELSE withDescription
    IN  IF index = 0
        THEN [error |-> "Item not found.", data |-> data]
        ELSE IF title # Undefined /\ newTitle = <<>>
        THEN [error |-> "Item title cannot be empty.", data |-> data]
        ELSE IF status # UndefinedStatus /\ ~validateStatus(status)
        THEN [error |-> "Invalid status", data |-> data]
        ELSE [error |-> "",
              data |-> [data EXCEPT !.items[index] = updatedItem],
              item |-> updatedItem]

deleteItem(data, projectId, itemId) ==
    LET index == itemIndex(data, projectId, itemId) IN
    IF index = 0
    THEN [error |-> "Item not found.", data |-> data]
    ELSE [error |-> "",
          data |-> [data EXCEPT !.items =
                      SubSeq(@, 1, index - 1) \o SubSeq(@, index + 1, Len(@))]]

\* placeItem storing the 0-based index as the position
placeItemZeroBased(its, projectId, status, itemId, index) ==
    LET hits == {i \in DOMAIN its :
                    its[i].id = itemId /\ its[i].projectId = projectId}
    IN  IF hits = {}
        THEN its
        ELSE LET i == CHOOSE k \in hits : \A j \in hits : k <= j IN
             [its EXCEPT ![i].status = status, ![i].position = index]

\* placeItem moving the item down from where it stands
placeItemRelative(its, projectId, status, itemId, index) ==
    LET hits == {i \in DOMAIN its :
                    its[i].id = itemId /\ its[i].projectId = projectId}
    IN  IF hits = {}
        THEN its
        ELSE LET i == CHOOSE k \in hits : \A j \in hits : k <= j IN
             [its EXCEPT ![i].status = status,
                         ![i].position = its[i].position + index + 1]

\* the body of the inner forEach of reorderItems: one id of one column
placeItem(its, projectId, status, itemId, index) ==
    LET hits == {i \in DOMAIN its :
                    its[i].id = itemId /\ its[i].projectId = projectId}
    IN  IF hits = {}
        THEN its
        ELSE LET i == CHOOSE k \in hits : \A j \in hits : k <= j IN
             [its EXCEPT ![i].status = status, ![i].position = index + 1]

\* orderedIds.forEach((itemId, index) => ...), from index (0-based) on
RECURSIVE placeColumn(_, _, _, _, _)
placeColumn(its, projectId, status, orderedIds, index) ==
    IF index >= Len(orderedIds)
    THEN its
    ELSE placeColumn(placeItem(its, projectId, status, orderedIds[index + 1], index),
                     projectId, status, orderedIds, index + 1)

\* VALID_STATUSES.forEach(status => ...), from the k-th status on; a column
\* that is not an array makes forEach throw a TypeError there
RECURSIVE placeColumns(_, _, _, _)
placeColumns(its, projectId, columns, k) ==
    IF k > Len(VALID_STATUSES)
    THEN [threw |-> FALSE, items |-> its]
    ELSE LET status == VALID_STATUSES[k] IN
         IF columns[status] = NotArray
         THEN [threw |-> TRUE, items |-> its]
         ELSE placeColumns(placeColumn(its, projectId, status, columns[status], 0),
                           projectId, columns, k + 1)

\* reorderItems keeping only the items its payload lists
reorderItemsDropUnlisted(data, projectId, columns) ==
    LET placed == placeColumns(data.items, projectId, columns, 1)
        Listed(item) ==
            \E status \in DOMAIN columns :
                \E k \in DOMAIN columns[status] : columns[status][k] = item.id
        written == [data EXCEPT !.items = SelectSeq(placed.items, Listed)]
    IN  IF getProjectById(data, projectId) = <<>>
        THEN [error |-> "Project not found.", data |-> data]
        ELSE IF placed.threw
        THEN [error |-> "orderedIds.forEach is not a function", data |-> data]
        ELSE [error |-> "", data |-> written,
              items |-> getItemsByProject(written, projectId)]

\* reorderItems: the document it writes (none when it throws) and its result
reorderItems(data, projectId, columns) ==
    LET placed == placeColumns(data.items, projectId, columns, 1)
        written == [data EXCEPT !.items = placed.items]
    IN  IF getProjectById(data, projectId) = <<>>
        THEN [error |-> "Project not found.", data |-> data]
        ELSE IF placed.threw
        THEN [error |-> "orderedIds.forEach is not a function", data |-> data]
        ELSE [error |-> "", data |-> written,
              items |-> getItemsByProject(written, projectId)]


(***************************************************************************)
(* The routes of the Express application.                                  *)
(***************************************************************************)
\* readData() taking the file for the document it held before it was damaged
readDataTrusting == [projects |-> projects, items |-> items]

\* readData(): the parsed store document; a text that does not parse gives a
\* copy of DEFAULT_DATA
Data ==
    IF malformed THEN DEFAULT_DATA ELSE [projects |-> projects, items |-> items]

\* writeData(data): the file holds the document
Written(data) ==
    projects' = data.projects /\ items' = data.items /\ malformed' = FALSE

\* a handler that called readData and does not write leaves the file as
\* readData left it: as it was, or rewritten with DEFAULT_DATA by the catch
\* block
NotWritten == Written(Data)

\* a handler that answers before it calls readData
NotRead == UNCHANGED <<projects, items, malformed>>

\* sanitizeProject returning the stored object
sanitizeProjectKeepAll(project) == project

sanitizeProject(project) ==
    [field \in DOMAIN project \ {"secretKey"} |-> project[field]]

groupItemsByStatus(its) ==
    [status \in Range(VALID_STATUSES) |->
        LET HasStatus(item) == item.status = status IN SelectSeq(its, HasStatus)]

EmptyColumns == [status \in Range(VALID_STATUSES) |-> <<>>]

\* a request: its route, path parameters, x-project-secret header and body
\* fields (the fields a route does not read keep these values)
NoRequest ==
    [route |-> "none", projectId |-> 0, itemId |-> 0, secret |-> Undefined,
     name |-> Undefined, secretKey |-> Undefined, title |-> Undefined,
     description |-> Undefined, status |-> UndefinedStatus,
     columns |-> EmptyColumns]

NoResponse == [status |-> 0, body |-> <<>>]

Reply(status, body) == [status |-> status, body |-> body]

ErrorReply(status, message) == [status |-> status, body |-> [error |-> message]]

\* requireProjectSecret comparing only a secret that was sent
requireProjectSecretIfSent(data, projectId, secret) ==
    LET providedSecret == trim(OrEmpty(secret))
        project == getProjectById(data, projectId)
    IN  IF project = <<>>
        THEN [next |-> FALSE, response |-> ErrorReply(404, "Project not found.")]
        ELSE IF providedSecret # <<>> /\ project[1].secretKey # providedSecret
        THEN [next |-> FALSE,
              response |-> ErrorReply(403, "Invalid secret key for this project.")]
        ELSE [next |-> TRUE, project |-> project[1]]

\* the middleware: next() is called only when the stored secret equals the
\* presented one
requireProjectSecret(data, projectId, secret) ==
    LET providedSecret == trim(OrEmpty(secret))
        project == getProjectById(data, projectId)
    IN  IF project = <<>>
        THEN [next |-> FALSE, response |-> ErrorReply(404, "Project not found.")]
        ELSE IF project[1].secretKey # providedSecret
        THEN [next |-> FALSE,
              response |-> ErrorReply(403, "Invalid secret key for this project.")]
        ELSE [next |-> TRUE, project |-> project[1]]

\* POST /api/projects
PostProjects(name, secretKey) ==
    LET result == createProject(Data, name, secretKey, nextProjectId, clock) IN
    /\ result.error = "" => nextProjectId <= MaxProjects
    /\ request' = [NoRequest EXCEPT !.route = "POST /api/projects",
                                    !.name = name, !.secretKey = secretKey]
    /\ IF result.error = ""
       THEN /\ Written(result.data)
            /\ nextProjectId' = nextProjectId + 1
            /\ clock' = clock + 1
            /\ response' = Reply(201, [project |-> sanitizeProject(result.project)])
       ELSE /\ response' = ErrorReply(400, result.error)
            /\ IF result.error \in {"Project name is required.",
                                    "Secret key is required."}
               THEN NotRead
               ELSE NotWritten
            /\ UNCHANGED <<nextProjectId, clock>>
    /\ UNCHANGED nextItemId
    /\ UNCHANGED <<reorderVars, writers>>

\* POST /api/access
PostAccess(secretKey) ==
    LET project == getProjectBySecret(Data, secretKey) IN
    /\ request' = [NoRequest EXCEPT !.route = "POST /api/access",
                                    !.secretKey = secretKey]
    /\ response' = IF project = <<>>
                   THEN ErrorReply(404, "Invalid secret key.")
                   ELSE Reply(200, [project |-> sanitizeProject(project[1])])
    /\ IF trim(OrEmpty(secretKey)) = <<>> THEN NotRead ELSE NotWritten
    /\ UNCHANGED <<nextProjectId, nextItemId, clock>>
    /\ UNCHANGED <<reorderVars, writers>>

\* GET /api/projects
GetProjects ==
    /\ request' = [NoRequest EXCEPT !.route = "GET /api/projects"]
    /\ response' = Reply(200, [projects |->
            [i \in DOMAIN listProjects(Data) |->
                sanitizeProject(listProjects(Data)[i])]])
    /\ NotWritten
    /\ UNCHANGED <<nextProjectId, nextItemId, clock>>
    /\ UNCHANGED <<reorderVars, writers>>

\* GET /api/projects/:projectId
GetProject(projectId, secret) ==
    LET gate == requireProjectSecret(Data, projectId, secret) IN
    /\ request' = [NoRequest EXCEPT !.route = "GET /api/projects/:projectId",
                                    !.projectId = projectId, !.secret = secret]
    /\ response' = IF gate.next
                   THEN Reply(200, [project |-> sanitizeProject(gate.project)])
                   ELSE gate.response
    /\ NotWritten
    /\ UNCHANGED <<nextProjectId, nextItemId, clock>>
    /\ UNCHANGED <<reorderVars, writers>>

\* DELETE /api/projects/:projectId
DeleteProject(projectId, secret) ==
    LET gate == requireProjectSecret(Data, projectId, secret)
        result == deleteProject(Data, gate.project.id)
    IN  /\ request' = [NoRequest EXCEPT
                          !.route = "DELETE /api/projects/:projectId",
                          !.projectId = projectId, !.secret = secret]
        /\ IF ~gate.next
           THEN response' = gate.response /\ NotWritten
           ELSE IF ~result.success
           THEN /\ response' = ErrorReply(404, "Project not found.")
                /\ NotWritten
           ELSE response' = Reply(204, <<>>) /\ Written(result.data)
        /\ UNCHANGED <<nextProjectId, nextItemId, clock>>
        /\ UNCHANGED <<reorderVars, writers>>

\* GET /api/projects/:projectId/items
GetItems(projectId, secret) ==
    LET gate == requireProjectSecret(Data, projectId, secret) IN
    /\ request' = [NoRequest EXCEPT
                      !.route = "GET /api/projects/:projectId/items",
                      !.projectId = projectId, !.secret = secret]
    /\ response' =
          IF gate.next
          THEN Reply(200, [columns |->
                  groupItemsByStatus(getItemsByProject(Data, gate.project.id))])
          ELSE gate.response
    /\ NotWritten
    /\ UNCHANGED <<nextProjectId, nextItemId, clock>>
    /\ UNCHANGED <<reorderVars, writers>>

\* POST /api/projects/:projectId/items
PostItems(projectId, secret, title, description, status) ==
    LET gate == requireProjectSecret(Data, projectId, secret)
        result == createItem(Data, gate.project.id, title, description, status,
                             nextItemId)
    IN  /\ request' = [NoRequest EXCEPT
                          !.route = "POST /api/projects/:projectId/items",
                          !.projectId = projectId, !.secret = secret,
                          !.title = title, !.description = description,
                          !.status = status]
        /\ IF ~gate.next
           THEN response' = gate.response /\ NotWritten /\ UNCHANGED nextItemId
           ELSE IF result.error # ""
           THEN /\ response' = ErrorReply(400, result.error)
                /\ NotWritten /\ UNCHANGED nextItemId
           ELSE /\ response' = Reply(201, [item |-> result.item])
                /\ Written(result.data)
                /\ nextItemId' = nextItemId + 1
        /\ UNCHANGED <<nextProjectId, clock>>
        /\ UNCHANGED <<reorderVars, writers>>

\* PATCH /api/projects/:projectId/items/:itemId
PatchItem(projectId, secret, itemId, title, description, status) ==
    LET gate == requireProjectSecret(Data, projectId, secret)
        result == updateItem(Data, gate.project.id, itemId, title, description,
                             status)
    IN  /\ request' = [NoRequest EXCEPT
                          !.route = "PATCH /api/projects/:projectId/items/:itemId",
                          !.projectId = projectId, !.secret = secret,
                          !.itemId = itemId, !.title = title,
                          !.description = description, !.status = status]
        /\ IF ~gate.next
           THEN response' = gate.response /\ NotWritten
           ELSE IF result.error # ""
           THEN /\ response' =
                      ErrorReply(IF result.error = "Item not found." THEN 404 ELSE 400,
                                 result.error)
                /\ NotWritten
           ELSE /\ response' = Reply(200, [item |-> result.item])
                /\ Written(result.data)
        /\ UNCHANGED <<nextProjectId, nextItemId, clock>>
        /\ UNCHANGED <<reorderVars, writers>>

\* DELETE /api/projects/:projectId/items/:itemId
DeleteItem(projectId, secret, itemId) ==
    LET gate == requireProjectSecret(Data, projectId, secret)
        result == deleteItem(Data, gate.project.id, itemId)
    IN  /\ request' = [NoRequest EXCEPT
                          !.route = "DELETE /api/projects/:projectId/items/:itemId",
                          !.projectId = projectId, !.secret = secret,
                          !.itemId = itemId]
        /\ IF ~gate.next
           THEN response' = gate.response /\ NotWritten
           ELSE IF result.error # ""
           THEN /\ response' =
                      ErrorReply(IF result.error = "Item not found." THEN 404 ELSE 400,
                                 result.error)
                /\ NotWritten
           ELSE response' = Reply(204, <<>>) /\ Written(result.data)
        /\ UNCHANGED <<nextProjectId, nextItemId, clock>>
        /\ UNCHANGED <<reorderVars, writers>>

\* POST /api/projects/:projectId/items/reorder
PostReorder(projectId, secret, columns) ==
    LET gate == requireProjectSecret(Data, projectId, secret)
        result == reorderItems(Data, gate.project.id, columns)
    IN  /\ request' = [NoRequest EXCEPT
                          !.route = "POST /api/projects/:projectId/items/reorder",
                          !.projectId = projectId, !.secret = secret,
                          !.columns = columns]
        /\ IF ~gate.next
           THEN response' = gate.response /\ NotWritten
           ELSE IF result.error # ""
           THEN /\ response' =
                      ErrorReply(IF result.error = "Project not found." THEN 404 ELSE 400,
                                 result.error)
                /\ NotWritten
           ELSE /\ response' = Reply(200, [columns |-> groupItemsByStatus(result.items)])
                /\ Written(result.data)
        /\ UNCHANGED <<nextProjectId, nextItemId, clock>>
        /\ UNCHANGED <<reorderVars, writers>>


(***************************************************************************)
(* The requests of the model.                                              *)
(***************************************************************************)
ProjectIds == 1..MaxProjects

\* name fields of POST /api/projects
Names == {Undefined, <<"n">>, <<" ", "m">>}

\* secretKey fields of a JSON body
BodySecrets == {Undefined, <<" ">>, <<"a">>, <<"a", " ">>, <<"b">>}

\* x-project-secret header values; the HTTP parser strips the optional
\* whitespace around a field value, and the client sends no header for an
\* empty secret
HeaderSecrets == {Undefined, <<"a">>, <<"b">>}

StatusInputs == {UndefinedStatus, "bogus"} \cup Range(VALID_STATUSES)

SeqsUpTo(S, n) == UNION {[1..k -> S] : k \in 0..n}

SumLen(columns) ==
    Len(columns["backlog"]) + Len(columns["in_progress"])
        + Len(columns["review"]) + Len(columns["done"])

\* reorder payloads: for every status a sequence of ids (of any item,
\* existing or not), at most n ids in all
ReorderPayloads(ids, n) ==
    {columns \in [Range(VALID_STATUSES) -> SeqsUpTo(ids, n)] : SumLen(columns) <= n}

\* randomUUID never repeats: a request that creates an item is taken only
\* while the model has ids left
HasItemId(limit, projectId, secret, title, description, status) ==
    LET gate == requireProjectSecret(Data, projectId, secret) IN
    (/\ gate.next
     /\ createItem(Data, projectId, title, description, status, nextItemId).error = "")
        => nextItemId <= limit

(***************************************************************************)
(* The objects of the browser client.  React state holds references: an    *)
(* item object is shared by every array that holds its reference, and      *)
(* { ...item } makes a new object.  A reference is <<space, id>>, the      *)
(* space naming the copy it was made for.                                  *)
(***************************************************************************)
\* COLUMN_ORDER of the client's constants module: the four columns
COLUMN_ORDER == VALID_STATUSES

StatusOrder(status) ==
    CHOOSE k \in DOMAIN COLUMN_ORDER : COLUMN_ORDER[k] = status

Spaces == {"ensured", "active", "previous", "optimistic"}

Refs == Spaces \X (1..MaxTxItems)

\* a reference no object is allocated at
NoObject ==
    [id |-> 0, projectId |-> 0, title |-> <<>>, description |-> <<>>,
     status |-> "none", position |-> 0]

createEmptyColumns == [status \in Range(COLUMN_ORDER) |-> <<>>]

\* the item values the references of a column state point at
Deref(h, cols) ==
    [status \in Range(COLUMN_ORDER) |->
        [i \in 1..Len(cols[status]) |-> h[cols[status][i]]]]

\* items.map((item) => ({ ...item })) for every column: new objects, in
\* `space`, holding the fields of the given item values
copyInto(h, space, values) ==
    LET flat == values[COLUMN_ORDER[1]] \o values[COLUMN_ORDER[2]]
                    \o values[COLUMN_ORDER[3]] \o values[COLUMN_ORDER[4]]
        Holds(id) == {k \in DOMAIN flat : flat[k].id = id}
        Copy(id) == flat[CHOOSE k \in Holds(id) : \A j \in Holds(id) : j <= k]
    IN  [heap |-> [r \in Refs |->
                      IF r[1] # space THEN h[r]
                      ELSE IF Holds(r[2]) = {} THEN NoObject ELSE Copy(r[2])],
         columns |-> [status \in Range(COLUMN_ORDER) |->
                        [i \in 1..Len(values[status]) |->
                            <<space, values[status][i].id>>]]]

\* ensureColumns(incoming), for an incoming that has the four arrays
ensureColumns(h, space, incoming) == copyInto(h, space, incoming)

\* cloneColumns keeping the item objects of the columns it is given
cloneColumnsShared(h, space, cols) == [heap |-> h, columns |-> cols]

cloneColumns(h, space, cols) == copyInto(h, space, Deref(h, cols))

columnsToIds(h, cols) ==
    [status \in Range(COLUMN_ORDER) |->
        [i \in 1..Len(cols[status]) |-> h[cols[status][i]].id]]

RefsOf(cols) ==
    UNION {{cols[status][i] : i \in 1..Len(cols[status])} :
             status \in Range(COLUMN_ORDER)}

\* the objects still referenced; the others are garbage
collect(h, live) == [r \in Refs |-> IF r \in live THEN h[r] ELSE NoObject]

\* the result of a drag: where the card was picked up and where it was
\* dropped, indices 0-based
NoDrop ==
    [source |-> "none", sourceIndex |-> 0, destination |-> "none",
     destinationIndex |-> 0]

\* no board is open in a browser
ClientClosed ==
    /\ heap = [r \in Refs |-> NoObject]
    /\ boardColumns = createEmptyColumns
    /\ previous = createEmptyColumns
    /\ error = ""
    /\ busy = FALSE
    /\ clientPc = "closed"
    /\ reorderCalls = 0
    /\ reply = NoResponse
    /\ fetched = NoResponse
    /\ shown = createEmptyColumns
    /\ columnsState = createEmptyColumns
    /\ calls = <<>>
    /\ dropped = NoDrop

Writers == 1..MaxWriters

\* a writer that handles no request
NoWriter ==
    [pc |-> "idle", kind |-> "none", itemId |-> 0, status |-> "none",
     position |-> 0, data |-> DEFAULT_DATA, created |-> 0]

\* the store file parses, and one request is handled at a time
Undisturbed ==
    /\ malformed = FALSE
    /\ writers = [w \in Writers |-> NoWriter]

\* no listing read yet; a listing read is held as <<listing>>
NoListing == <<>>

Init ==
    /\ projects = DEFAULT_DATA.projects
    /\ items = DEFAULT_DATA.items
    /\ nextProjectId = 1
    /\ nextItemId = 1
    /\ clock = 1
    /\ request = NoRequest
    /\ response = NoResponse
    /\ backend = "file"
    /\ pc = "idle"
    /\ todo = <<>>
    /\ work = <<>>
    /\ snapshot = <<>>
    /\ observed = NoListing
    /\ Undisturbed
    /\ ClientClosed

(***************************************************************************)
(* The access model: every route, with any project id and any secret.      *)
(***************************************************************************)
AccessPayloads == ReorderPayloads(1..MaxItems, 1)

Next ==
    \/ \E name \in Names, secretKey \in BodySecrets :
          PostProjects(name, secretKey) /\ UNCHANGED clientVars
    \/ \E secretKey \in BodySecrets : PostAccess(secretKey) /\ UNCHANGED clientVars
    \/ GetProjects /\ UNCHANGED clientVars
    \/ \E projectId \in ProjectIds, secret \in HeaderSecrets :
          \/ GetProject(projectId, secret) /\ UNCHANGED clientVars
          \/ DeleteProject(projectId, secret) /\ UNCHANGED clientVars
          \/ GetItems(projectId, secret) /\ UNCHANGED clientVars
          \/ \E status \in {UndefinedStatus, "done"} :
                /\ HasItemId(MaxItems, projectId, secret, <<"t">>, Undefined, status)
                /\ PostItems(projectId, secret, <<"t">>, Undefined, status)
                /\ UNCHANGED clientVars
          \/ \E itemId \in 1..MaxItems, status \in {UndefinedStatus, "review"} :
                /\ PatchItem(projectId, secret, itemId, <<"u">>, Undefined, status)
                /\ UNCHANGED clientVars
          \/ \E itemId \in 1..MaxItems :
                DeleteItem(projectId, secret, itemId) /\ UNCHANGED clientVars
          \/ \E columns \in AccessPayloads :
                PostReorder(projectId, secret, columns) /\ UNCHANGED clientVars

Spec == Init /\ [][Next]_vars

(***************************************************************************)
(* The board model: one project, opened with its secret, and every item    *)
(* request on it.                                                          *)
(***************************************************************************)
BoardItemIds == 1..MaxBoardItems

BoardPayloads == ReorderPayloads(BoardItemIds, MaxReorderIds)

BoardSecret == <<"a">>

PositionsWithin(its, limit) == \A i \in DOMAIN its : its[i].position <= limit

NextBoard ==
    \/ PostProjects(<<"n">>, BoardSecret) /\ UNCHANGED clientVars
    \/ GetItems(1, BoardSecret) /\ UNCHANGED clientVars
    \/ \E title \in {Undefined, <<"t">>}, status \in StatusInputs :
          /\ HasItemId(MaxBoardItems, 1, BoardSecret, title, Undefined, status)
          /\ PostItems(1, BoardSecret, title, Undefined, status)
          /\ UNCHANGED clientVars
    \/ \E itemId \in BoardItemIds, status \in StatusInputs :
          /\ PatchItem(1, BoardSecret, itemId, Undefined, Undefined, status)
          /\ PositionsWithin(items', MaxPosition)
          /\ UNCHANGED clientVars
    \/ \E itemId \in BoardItemIds :
          DeleteItem(1, BoardSecret, itemId) /\ UNCHANGED clientVars
    \/ \E columns \in BoardPayloads :
          PostReorder(1, BoardSecret, columns) /\ UNCHANGED clientVars

SpecBoard == Init /\ [][NextBoard]_vars

(***************************************************************************)
(* The reorder statement by statement: the file-backed reorderItems works  *)
(* on the parsed document and writes it once; the relational reorderItems  *)
(* runs its UPDATEs in a transaction.  A reader lists the stored items     *)
(* at any moment.                                                          *)
(***************************************************************************)
\* the writes of one column, in the order its loop makes them
RECURSIVE columnWrites(_, _, _)
columnWrites(status, orderedIds, index) ==
    IF index >= Len(orderedIds)
    THEN <<>>
    ELSE <<[status |-> status, index |-> index, itemId |-> orderedIds[index + 1]]>>
            \o columnWrites(status, orderedIds, index + 1)

\* the step at which forEach throws
Throws == [status |-> "TypeError", index |-> 0, itemId |-> 0]

\* file-backed: (columns[status] || []).forEach, for every status from the
\* k-th on; nothing follows a throw
RECURSIVE fileWrites(_, _)
fileWrites(columns, k) ==
    IF k > Len(VALID_STATUSES) THEN <<>>
    ELSE IF columns[VALID_STATUSES[k]] = NotArray THEN <<Throws>>
    ELSE columnWrites(VALID_STATUSES[k], columns[VALID_STATUSES[k]], 0)
            \o fileWrites(columns, k + 1)

\* relational: Array.isArray(columns[status]) ? columns[status] : []
arrayOrEmpty(columns) ==
    [status \in Range(VALID_STATUSES) |->
        IF columns[status] = NotArray THEN <<>> ELSE columns[status]]

RECURSIVE pgWrites(_, _)
pgWrites(columns, k) ==
    IF k > Len(VALID_STATUSES) THEN <<>>
    ELSE columnWrites(VALID_STATUSES[k], arrayOrEmpty(columns)[VALID_STATUSES[k]], 0)
            \o pgWrites(columns, k + 1)

TxProject == 1

ReorderRequest(columns) ==
    [NoRequest EXCEPT !.route = "POST /api/projects/:projectId/items/reorder",
                      !.projectId = TxProject, !.secret = <<"a">>,
                      !.columns = columns]

Listing(its) ==
    groupItemsByStatus(getItemsByProject([projects |-> projects, items |-> its],
                                         TxProject))

\* file-backed reorderItems: readData()
ReorderRead(columns) ==
    /\ backend = "file" /\ pc = "idle"
    /\ pc' = "placing"
    /\ work' = items
    /\ snapshot' = items
    /\ todo' = fileWrites(columns, 1)
    /\ request' = ReorderRequest(columns)
    /\ UNCHANGED <<projects, items, nextProjectId, nextItemId, clock, response,
                   backend, observed>>

\* a reorder that stored each write as it made it
ReorderPlaceWriteThrough ==
    /\ backend = "file" /\ pc = "placing"
    /\ todo # <<>> /\ Head(todo) # Throws
    /\ work' = placeItem(work, TxProject, Head(todo).status, Head(todo).itemId,
                         Head(todo).index)
    /\ items' = work'
    /\ todo' = Tail(todo)
    /\ UNCHANGED <<projects, nextProjectId, nextItemId, clock, request,
                   response, backend, pc, snapshot, observed>>

\* file-backed reorderItems: one pass of the inner forEach, on the parsed
\* document
ReorderPlace ==
    /\ backend = "file" /\ pc = "placing"
    /\ todo # <<>> /\ Head(todo) # Throws
    /\ work' = placeItem(work, TxProject, Head(todo).status, Head(todo).itemId,
                         Head(todo).index)
    /\ todo' = Tail(todo)
    /\ UNCHANGED <<projects, items, nextProjectId, nextItemId, clock, request,
                   response, backend, pc, snapshot, observed>>

\* file-backed reorderItems: forEach of a column that is no array throws;
\* the route answers 400 and nothing is written
ReorderThrow ==
    /\ backend = "file" /\ pc = "placing"
    /\ todo # <<>> /\ Head(todo) = Throws
    /\ pc' = "done"
    /\ response' = ErrorReply(400, "orderedIds.forEach is not a function")
    /\ UNCHANGED <<projects, items, nextProjectId, nextItemId, clock, request,
                   backend, todo, work, snapshot, observed>>

\* file-backed reorderItems: writeData(data), then the listing it returns
ReorderWrite ==
    /\ backend = "file" /\ pc = "placing"
    /\ todo = <<>>
    /\ items' = work
    /\ pc' = "done"
    /\ response' = Reply(200, [columns |-> Listing(work)])
    /\ UNCHANGED <<projects, nextProjectId, nextItemId, clock, request,
                   backend, todo, work, snapshot, observed>>

\* relational reorderItems: BEGIN, and the project is found
PgBegin(columns) ==
    /\ backend = "postgres" /\ pc = "idle"
    /\ pc' = "placing"
    /\ work' = items
    /\ snapshot' = items
    /\ todo' = pgWrites(columns, 1)
    /\ request' = ReorderRequest(columns)
    /\ UNCHANGED <<projects, items, nextProjectId, nextItemId, clock, response,
                   backend, observed>>

\* relational reorderItems: one UPDATE items SET status, position WHERE id
\* AND project_id, inside the transaction
PgUpdate ==
    /\ backend = "postgres" /\ pc = "placing"
    /\ todo # <<>>
    /\ work' = placeItem(work, TxProject, Head(todo).status, Head(todo).itemId,
                         Head(todo).index)
    /\ todo' = Tail(todo)
    /\ UNCHANGED <<projects, items, nextProjectId, nextItemId, clock, request,
                   response, backend, pc, snapshot, observed>>

\* relational reorderItems: a statement fails (an id that is no UUID, a lost
\* connection); the catch block runs ROLLBACK and rethrows
PgRollback ==
    /\ backend = "postgres" /\ pc = "placing"
    /\ pc' = "done"
    /\ response' = ErrorReply(400, "query failed")
    /\ UNCHANGED <<projects, items, nextProjectId, nextItemId, clock, request,
                   backend, todo, work, snapshot, observed>>

\* relational reorderItems: COMMIT, then getItemsByProject
PgCommit ==
    /\ backend = "postgres" /\ pc = "placing"
    /\ todo = <<>>
    /\ items' = work
    /\ pc' = "done"
    /\ response' = Reply(200, [columns |-> Listing(work)])
    /\ UNCHANGED <<projects, nextProjectId, nextItemId, clock, request,
                   backend, todo, work, snapshot, observed>>

\* GET /api/projects/:projectId/items of another client, while the reorder
\* is in flight: it reads the stored document, or the committed rows
ReadItems ==
    /\ pc = "placing"
    /\ observed' = <<Listing(items)>>
    /\ UNCHANGED <<projects, items, nextProjectId, nextItemId, clock, request,
                   response, backend, pc, todo, work, snapshot>>

TxItemIds == 1..MaxTxItems

\* the boards of one project with MaxTxItems items: a reorder can give an
\* item any status and any position
TxBoards ==
    {[i \in TxItemIds |->
        [id |-> i, projectId |-> TxProject, title |-> <<"t">>,
         description |-> <<>>, status |-> col[i][1], position |-> col[i][2]]] :
     col \in [TxItemIds -> Range(VALID_STATUSES) \X TxItemIds]}

TxPayloads ==
    {columns \in [Range(VALID_STATUSES) ->
                     SeqsUpTo(TxItemIds, MaxReorderIds) \cup {NotArray}] :
        SumLen(columns) <= MaxReorderIds}

InitAtomic ==
    /\ backend \in {"file", "postgres"}
    /\ projects = <<[id |-> TxProject, name |-> <<"n">>, secretKey |-> <<"a">>,
                     createdAt |-> 1]>>
    /\ items \in TxBoards
    /\ nextProjectId = TxProject + 1
    /\ nextItemId = MaxTxItems + 1
    /\ clock = 2
    /\ request = NoRequest
    /\ response = NoResponse
    /\ pc = "idle"
    /\ todo = <<>>
    /\ work = <<>>
    /\ snapshot = <<>>
    /\ observed = NoListing
    /\ Undisturbed
    /\ ClientClosed

NextAtomic ==
    \/ \E columns \in TxPayloads :
          ReorderRead(columns) /\ UNCHANGED <<malformed, writers, clientVars>>
    \/ ReorderPlace /\ UNCHANGED <<malformed, writers, clientVars>>
    \/ ReorderThrow /\ UNCHANGED <<malformed, writers, clientVars>>
    \/ ReorderWrite /\ UNCHANGED <<malformed, writers, clientVars>>
    \/ \E columns \in TxPayloads :
          PgBegin(columns) /\ UNCHANGED <<malformed, writers, clientVars>>
    \/ PgUpdate /\ UNCHANGED <<malformed, writers, clientVars>>
    \/ PgRollback /\ UNCHANGED <<malformed, writers, clientVars>>
    \/ PgCommit /\ UNCHANGED <<malformed, writers, clientVars>>
    \/ ReadItems /\ UNCHANGED <<malformed, writers, clientVars>>

SpecAtomic == InitAtomic /\ [][NextAtomic]_vars

(***************************************************************************)
(* The update model: a stored board of one project, and every body a       *)
(* PATCH of an item can carry.                                             *)
(***************************************************************************)
\* bodies of PATCH /api/projects/:projectId/items/:itemId
PatchBodies ==
    {[title |-> title, description |-> Undefined, status |-> status] :
        title \in {Undefined, <<"u">>, <<" ">>},
        status \in {UndefinedStatus, "bogus", "backlog", "done"}}
    \cup {[title |-> Undefined, description |-> <<"d", " ">>, status |-> UndefinedStatus],
          [title |-> <<" ">>, description |-> <<"d", " ">>, status |-> "done"],
          [title |-> <<"u">>, description |-> <<"d", " ">>, status |-> "bogus"]}

InitUpdate ==
    /\ backend = "file"
    /\ projects = <<[id |-> TxProject, name |-> <<"n">>, secretKey |-> BoardSecret,
                     createdAt |-> 1]>>
    /\ items \in TxBoards
    /\ nextProjectId = TxProject + 1
    /\ nextItemId = MaxTxItems + 1
    /\ clock = 2
    /\ request = NoRequest
    /\ response = NoResponse
    /\ pc = "idle"
    /\ todo = <<>>
    /\ work = <<>>
    /\ snapshot = <<>>
    /\ observed = NoListing
    /\ Undisturbed
    /\ ClientClosed

NextUpdate ==
    \/ GetItems(TxProject, BoardSecret) /\ UNCHANGED clientVars
    \/ \E itemId \in TxItemIds, body \in PatchBodies :
          /\ PatchItem(TxProject, BoardSecret, itemId, body.title,
                       body.description, body.status)
          /\ PositionsWithin(items', MaxPosition)
          /\ UNCHANGED clientVars
    \/ /\ PatchItem(TxProject, BoardSecret, MaxTxItems + 1, <<"u">>, Undefined,
                    "done")
       /\ UNCHANGED clientVars

SpecUpdate == InitUpdate /\ [][NextUpdate]_vars

(***************************************************************************)
(* The shared store: two projects, each opened with its own secret, with   *)
(* items of both in the one document.                                      *)
(***************************************************************************)
SharedItemIds == 1..MaxSharedItems

\* the secret the client of a project holds: the one it was created with
SecretOf(projectId) ==
    LET project == getProjectById(Data, projectId) IN
    IF project = <<>> THEN BoardSecret ELSE project[1].secretKey

SharedColumns == {"backlog", "done"}

\* reorder payloads that use two of the columns
SharedPayloads ==
    {columns \in ReorderPayloads(SharedItemIds, MaxReorderIds) :
        \A status \in Range(VALID_STATUSES) \ SharedColumns : columns[status] = <<>>}

NextShared ==
    \/ \E secretKey \in {<<"a">>, <<"b">>} :
          PostProjects(<<"n">>, secretKey) /\ UNCHANGED clientVars
    \/ \E projectId \in ProjectIds :
          \/ DeleteProject(projectId, SecretOf(projectId)) /\ UNCHANGED clientVars
          \/ GetItems(projectId, SecretOf(projectId)) /\ UNCHANGED clientVars
          \/ \E status \in {UndefinedStatus, "done"} :
                /\ HasItemId(MaxSharedItems, projectId, SecretOf(projectId),
                             <<"t">>, Undefined, status)
                /\ PostItems(projectId, SecretOf(projectId), <<"t">>, Undefined,
                             status)
                /\ UNCHANGED clientVars
          \/ \E itemId \in SharedItemIds :
                /\ PatchItem(projectId, SecretOf(projectId), itemId, <<"u">>,
                             Undefined, "done")
                /\ PositionsWithin(items', MaxPosition)
                /\ UNCHANGED clientVars
          \/ \E itemId \in SharedItemIds :
                /\ DeleteItem(projectId, SecretOf(projectId), itemId)
                /\ UNCHANGED clientVars
          \/ \E columns \in SharedPayloads :
                /\ PostReorder(projectId, SecretOf(projectId), columns)
                /\ UNCHANGED clientVars

SpecShared == Init /\ [][NextShared]_vars

(***************************************************************************)
(* Concurrent writers: MaxWriters requests that place an item run at the   *)
(* same time, statement by statement.  File-backed, each reads the whole   *)
(* document, changes its copy and writes it back; relational, each runs    *)
(* its own transaction at the default isolation level (READ COMMITTED: a   *)
(* statement sees the rows committed before it).                           *)
(***************************************************************************)
\* randomUUID calls made by createItem over a run of the writers model
MaxWriterItems == 3

\* computeNextPosition: SELECT COALESCE(MAX(position), 0) + 1 over the rows
\* of the column the statement sees
computeNextPosition(rows, projectId, status) ==
    LET seen == {rows[i].position :
                    i \in {j \in DOMAIN rows : /\ rows[j].projectId = projectId
                                               /\ rows[j].status = status}}
    IN  IF seen = {} THEN 1 ELSE SetMax(seen) + 1

\* createItem (file-backed), up to const data = readData()
CreateItemRead(w, status) ==
    /\ backend = "file"
    /\ writers[w].pc = "idle"
    /\ nextItemId <= MaxWriterItems
    /\ writers' = [writers EXCEPT ![w] =
                      [NoWriter EXCEPT !.pc = "read", !.kind = "create",
                                       !.status = status, !.data = Data]]
    /\ UNCHANGED <<projects, items, nextProjectId, nextItemId, clock, request,
                   response, malformed, reorderVars>>

\* createItem (file-backed) appending its item to the document as the file
\* holds it when it writes
CreateItemWriteMerging(w) ==
    LET result == createItem(Data, TxProject, <<"t">>, Undefined,
                             writers[w].status, nextItemId)
    IN  /\ backend = "file"
        /\ writers[w].pc = "read"
        /\ Written(result.data)
        /\ nextItemId' = nextItemId + 1
        /\ writers' = [writers EXCEPT ![w] =
                          [NoWriter EXCEPT !.pc = "done", !.kind = "create",
                                           !.created = result.item.id]]
        /\ UNCHANGED <<nextProjectId, clock, request, response, reorderVars>>

\* createItem (file-backed), from data.projects.find on: the new item is
\* pushed on the copy that was read, writeData(data), and the item is returned
CreateItemWrite(w) ==
    LET result == createItem(writers[w].data, TxProject, <<"t">>, Undefined,
                             writers[w].status, nextItemId)
    IN  /\ backend = "file"
        /\ writers[w].pc = "read"
        /\ Written(result.data)
        /\ nextItemId' = nextItemId + 1
        /\ writers' = [writers EXCEPT ![w] =
                          [NoWriter EXCEPT !.pc = "done", !.kind = "create",
                                           !.created = result.item.id]]
        /\ UNCHANGED <<nextProjectId, clock, request, response, reorderVars>>

\* createItem (relational): BEGIN, the project is found, computeNextPosition
PgCreateItemSelect(w, status) ==
    /\ backend = "postgres"
    /\ writers[w].pc = "idle"
    /\ nextItemId <= MaxWriterItems
    /\ writers' = [writers EXCEPT ![w] =
                      [NoWriter EXCEPT
                          !.pc = "computed", !.kind = "create", !.status = status,
                          !.position = computeNextPosition(items, TxProject, status)]]
    /\ UNCHANGED <<projects, items, nextProjectId, nextItemId, clock, request,
                   response, malformed, reorderVars>>

\* createItem (relational): INSERT INTO items with the computed position,
\* COMMIT
PgCreateItemCommit(w) ==
    LET newItem == [id |-> nextItemId, projectId |-> TxProject,
                    title |-> <<"t">>, description |-> <<>>,
                    status |-> writers[w].status,
                    position |-> writers[w].position]
    IN  /\ backend = "postgres"
        /\ writers[w].pc = "computed" /\ writers[w].kind = "create"
        /\ items' = Append(items, newItem)
        /\ nextItemId' = nextItemId + 1
        /\ writers' = [writers EXCEPT ![w] =
                          [NoWriter EXCEPT !.pc = "done", !.kind = "create",
                                           !.created = newItem.id]]
        /\ UNCHANGED <<projects, nextProjectId, clock, request, response,
                       malformed, reorderVars>>

\* updateItem (relational) with a status that differs from the stored one:
\* BEGIN, SELECT the row, computeNextPosition for the new status
PgUpdateItemSelect(w, itemId, status) ==
    /\ backend = "postgres"
    /\ writers[w].pc = "idle"
    /\ \E i \in DOMAIN items :
          /\ items[i].id = itemId /\ items[i].projectId = TxProject
          /\ items[i].status # status
    /\ writers' = [writers EXCEPT ![w] =
                      [NoWriter EXCEPT
                          !.pc = "computed", !.kind = "update", !.itemId = itemId,
                          !.status = status,
                          !.position = computeNextPosition(items, TxProject, status)]]
    /\ UNCHANGED <<projects, items, nextProjectId, nextItemId, clock, request,
                   response, malformed, reorderVars>>

\* updateItem (relational): UPDATE items SET status, position WHERE id AND
\* project_id, COMMIT
PgUpdateItemCommit(w) ==
    /\ backend = "postgres"
    /\ writers[w].pc = "computed" /\ writers[w].kind = "update"
    /\ items' = [i \in DOMAIN items |->
                    IF items[i].id = writers[w].itemId
                          /\ items[i].projectId = TxProject
                    THEN [items[i] EXCEPT !.status = writers[w].status,
                                          !.position = writers[w].position]
                    ELSE items[i]]
    /\ writers' = [writers EXCEPT ![w] =
                      [NoWriter EXCEPT !.pc = "done", !.kind = "update",
                                       !.created = writers[w].itemId]]
    /\ UNCHANGED <<projects, nextProjectId, nextItemId, clock, request,
                   response, malformed, reorderVars>>

\* the item was returned to the route and the response sent; the writer is
\* free for the next request
WriterReturn(w) ==
    /\ writers[w].pc = "done"
    /\ writers' = [writers EXCEPT ![w] = NoWriter]
    /\ UNCHANGED <<projects, items, nextProjectId, nextItemId, clock, request,
                   response, malformed, reorderVars>>

\* the columns the writers place items in
WriterColumns == {"backlog", "done"}

\* the stored items when the writers begin: none, or one item
WriterBoards ==
    {<<>>} \cup
    {<<[id |-> 1, projectId |-> TxProject, title |-> <<"t">>,
        description |-> <<>>, status |-> status, position |-> 1]>> :
        status \in WriterColumns}

InitWriters ==
    /\ backend \in {"file", "postgres"}
    /\ projects = <<[id |-> TxProject, name |-> <<"n">>, secretKey |-> BoardSecret,
                     createdAt |-> 1]>>
    /\ items \in WriterBoards
    /\ nextProjectId = TxProject + 1
    /\ nextItemId = Len(items) + 1
    /\ clock = 2
    /\ request = NoRequest
    /\ response = NoResponse
    /\ pc = "idle"
    /\ todo = <<>>
    /\ work = <<>>
    /\ snapshot = <<>>
    /\ observed = NoListing
    /\ Undisturbed
    /\ ClientClosed

NextWriters ==
    \/ \E w \in Writers, status \in WriterColumns :
          CreateItemRead(w, status) /\ UNCHANGED clientVars
    \/ \E w \in Writers : CreateItemWrite(w) /\ UNCHANGED clientVars
    \/ \E w \in Writers, status \in WriterColumns :
          PgCreateItemSelect(w, status) /\ UNCHANGED clientVars
    \/ \E w \in Writers : PgCreateItemCommit(w) /\ UNCHANGED clientVars
    \/ \E w \in Writers, itemId \in 1..MaxWriterItems, status \in WriterColumns :
          PgUpdateItemSelect(w, itemId, status) /\ UNCHANGED clientVars
    \/ \E w \in Writers :
          /\ PgUpdateItemCommit(w)
          /\ PositionsWithin(items', MaxPosition)
          /\ UNCHANGED clientVars
    \/ \E w \in Writers : WriterReturn(w) /\ UNCHANGED clientVars

SpecWriters == InitWriters /\ [][NextWriters]_vars

(***************************************************************************)
(* The damaged file: the text of the store file stops parsing (a write     *)
(* that was cut short, an edit by hand), and the routes go on.             *)
(***************************************************************************)
\* the file is damaged from outside the program; what it held is lost to
\* JSON.parse
Corrupt ==
    /\ ~malformed
    /\ malformed' = TRUE
    /\ UNCHANGED <<projects, items, nextProjectId, nextItemId, clock, request,
                   response, reorderVars, writers>>

NextDisk ==
    \/ Corrupt /\ UNCHANGED clientVars
    \/ \E name \in {Undefined, <<"n">>} :
          PostProjects(name, BoardSecret) /\ UNCHANGED clientVars
    \/ \E secretKey \in {Undefined, BoardSecret} :
          PostAccess(secretKey) /\ UNCHANGED clientVars
    \/ GetProjects /\ UNCHANGED clientVars
    \/ \E projectId \in ProjectIds :
          \/ GetItems(projectId, BoardSecret) /\ UNCHANGED clientVars
          \/ /\ HasItemId(MaxItems, projectId, BoardSecret, <<"t">>, Undefined,
                          UndefinedStatus)
             /\ PostItems(projectId, BoardSecret, <<"t">>, Undefined,
                          UndefinedStatus)
             /\ UNCHANGED clientVars
          \/ /\ PatchItem(projectId, BoardSecret, MaxItems, <<"u">>, Undefined,
                          UndefinedStatus)
             /\ UNCHANGED clientVars
          \/ DeleteItem(projectId, BoardSecret, MaxItems) /\ UNCHANGED clientVars
          \/ \E columns \in AccessPayloads :
                PostReorder(projectId, BoardSecret, columns) /\ UNCHANGED clientVars

SpecDisk == Init /\ [][NextDisk]_vars

(***************************************************************************)
(* The client model: one browser with the board of a project open, the     *)
(* server it talks to, and another client of the same project.  A drag     *)
(* runs handleDragEnd; the handler waits for the server between its steps. *)
(***************************************************************************)
serverVars == <<projects, items, nextProjectId, nextItemId, clock, request,
                response, malformed, reorderVars, writers>>

\* fetch rejects: the request never got an answer
NetworkError == [status |-> 0, body |-> [error |-> "Failed to fetch"]]

\* Array.prototype.splice(index, 1) and splice(index, 0, x), index 0-based
removeAt(seq, index) == SubSeq(seq, 1, index) \o SubSeq(seq, index + 2, Len(seq))

\* a start beyond the end of the array is the end of the array
insertAt(seq, index, x) ==
    LET start == IF index > Len(seq) THEN Len(seq) ELSE index IN
    SubSeq(seq, 1, start) \o <<x>> \o SubSeq(seq, start + 1, Len(seq))

\* handleDragEnd, up to the await of api.reorderItems
DragEnd(source, sourceIndex, destination, destinationIndex) ==
    LET active == ensureColumns(heap, "active", Deref(heap, boardColumns))
        prev == cloneColumns(active.heap, "previous", active.columns)
        optimistic == cloneColumns(prev.heap, "optimistic", active.columns)
        sourceItems == optimistic.columns[source]
        moved == sourceItems[sourceIndex + 1]
        spliced == [optimistic.columns EXCEPT
                        ![source] = removeAt(sourceItems, sourceIndex)]
        assigned == [optimistic.heap EXCEPT ![moved].status = destination]
        placed == [spliced EXCEPT
                      ![destination] = insertAt(@, destinationIndex, moved)]
    IN  /\ clientPc = "idle"
        /\ ~(destination = source /\ destinationIndex = sourceIndex)
        /\ sourceIndex < Len(sourceItems)
        /\ destinationIndex <= Len(spliced[destination])
        /\ boardColumns' = placed
        /\ previous' = prev.columns
        /\ heap' = collect(assigned, RefsOf(placed) \cup RefsOf(prev.columns))
        /\ error' = ""
        /\ shown' = Deref(heap, boardColumns)
        /\ reorderCalls' = 1
        /\ reply' = NoResponse
        /\ fetched' = NoResponse
        /\ clientPc' = "reordering"
        /\ UNCHANGED <<busy, serverVars>>

\* api.reorderItems(project.id, secretKey, columnsToIds(optimistic)): the
\* server handles the request and its answer arrives
ServeReorder ==
    /\ clientPc = "reordering"
    /\ PostReorder(TxProject, BoardSecret, columnsToIds(heap, boardColumns))
    /\ reply' = response'
    /\ clientPc' = "replied"
    /\ UNCHANGED <<heap, boardColumns, previous, error, busy, reorderCalls,
                   fetched, shown>>

\* request(): fetch rejects
ReorderUnanswered ==
    /\ clientPc = "reordering"
    /\ reply' = NetworkError
    /\ clientPc' = "replied"
    /\ UNCHANGED <<heap, boardColumns, previous, error, busy, reorderCalls,
                   fetched, shown, serverVars>>

\* handleDragEnd keeping what it shows when the call succeeds
ReorderResolvedKeepsGuess ==
    /\ clientPc = "replied"
    /\ reply.status = 200
    /\ previous' = createEmptyColumns
    /\ heap' = collect(heap, RefsOf(boardColumns))
    /\ clientPc' = "idle"
    /\ UNCHANGED <<boardColumns, error, busy, reorderCalls, reply, fetched,
                   shown, serverVars>>

\* handleDragEnd after the await, response.ok:
\* setColumns(ensureColumns(response.columns))
ReorderResolved ==
    LET ensured == ensureColumns(heap, "ensured", reply.body.columns) IN
    /\ clientPc = "replied"
    /\ reply.status = 200
    /\ boardColumns' = ensured.columns
    /\ previous' = createEmptyColumns
    /\ heap' = collect(ensured.heap, RefsOf(ensured.columns))
    /\ clientPc' = "idle"
    /\ UNCHANGED <<error, busy, reorderCalls, reply, fetched, shown, serverVars>>

\* handleDragEnd's catch block, up to the call of refreshBoard:
\* setColumns(previous); setError(err.message || 'Failed to update order.')
ReorderRejected ==
    /\ clientPc = "replied"
    /\ reply.status # 200
    /\ boardColumns' = previous
    /\ heap' = collect(heap, RefsOf(previous))
    /\ error' = (IF reply.body.error # "" THEN reply.body.error
                 ELSE "Failed to update order.")
    /\ clientPc' = "rejected"
    /\ UNCHANGED <<previous, busy, reorderCalls, reply, fetched, shown,
                   serverVars>>

\* refreshBoard, up to the await of fetchBoard: setBusy(true); setError('')
RefreshBoard ==
    /\ clientPc = "rejected"
    /\ busy' = TRUE
    /\ error' = ""
    /\ clientPc' = "refreshing"
    /\ UNCHANGED <<heap, boardColumns, previous, reorderCalls, reply, fetched,
                   shown, serverVars>>

\* fetchBoard: api.fetchColumns is answered (api.fetchProject passes the same
\* gate and gives no column)
ServeFetchBoard ==
    /\ clientPc = "refreshing"
    /\ GetItems(TxProject, BoardSecret)
    /\ fetched' = response'
    /\ clientPc' = "fetched"
    /\ UNCHANGED <<heap, boardColumns, previous, error, busy, reorderCalls,
                   reply, shown>>

\* fetchBoard: fetch rejects
FetchBoardUnanswered ==
    /\ clientPc = "refreshing"
    /\ fetched' = NetworkError
    /\ clientPc' = "fetched"
    /\ UNCHANGED <<heap, boardColumns, previous, error, busy, reorderCalls,
                   reply, shown, serverVars>>

\* refreshBoard after the await: applyBoard(board, ...), finally setBusy(false)
RefreshResolved ==
    LET ensured == ensureColumns(heap, "ensured", fetched.body.columns) IN
    /\ clientPc = "fetched"
    /\ fetched.status = 200
    /\ boardColumns' = ensured.columns
    /\ previous' = createEmptyColumns
    /\ heap' = collect(ensured.heap, RefsOf(ensured.columns))
    /\ busy' = FALSE
    /\ clientPc' = "idle"
    /\ UNCHANGED <<error, reorderCalls, reply, fetched, shown, serverVars>>

\* refreshBoard's catch: setError(err.message), finally setBusy(false)
RefreshRejected ==
    /\ clientPc = "fetched"
    /\ fetched.status # 200
    /\ error' = fetched.body.error
    /\ busy' = FALSE
    /\ clientPc' = "idle"
    /\ UNCHANGED <<heap, boardColumns, previous, reorderCalls, reply, fetched,
                   shown, serverVars>>

\* the board of the stored project, loaded: applyBoard after fetchBoard
InitClient ==
    LET stored == [projects |-> projects, items |-> items]
        ensured == ensureColumns([r \in Refs |-> NoObject], "ensured",
                      groupItemsByStatus(getItemsByProject(stored, TxProject)))
    IN  /\ backend = "file"
        /\ projects = <<[id |-> TxProject, name |-> <<"n">>,
                         secretKey |-> BoardSecret, createdAt |-> 1]>>
        /\ items \in TxBoards
        /\ nextProjectId = TxProject + 1
        /\ nextItemId = MaxTxItems + 1
        /\ clock = 2
        /\ request = NoRequest
        /\ response = NoResponse
        /\ pc = "idle"
        /\ todo = <<>>
        /\ work = <<>>
        /\ snapshot = <<>>
        /\ observed = NoListing
        /\ Undisturbed
        /\ heap = ensured.heap
        /\ boardColumns = ensured.columns
        /\ previous = createEmptyColumns
        /\ error = ""
        /\ busy = FALSE
        /\ clientPc = "idle"
        /\ reorderCalls = 0
        /\ reply = NoResponse
        /\ fetched = NoResponse
        /\ shown = createEmptyColumns
        /\ columnsState = createEmptyColumns
        /\ calls = <<>>
        /\ dropped = NoDrop

\* the results the drag-and-drop library reports: a card that is shown,
\* dropped at a place of a column as it is without the card
CanDrop(source, sourceIndex, destination, destinationIndex) ==
    /\ clientPc = "idle"
    /\ sourceIndex < Len(boardColumns[source])
    /\ destinationIndex <= Len(boardColumns[destination])
                               - (IF destination = source THEN 1 ELSE 0)

NextClient ==
    \/ \E source, destination \in Range(COLUMN_ORDER) :
          \E sourceIndex, destinationIndex \in 0..MaxTxItems :
              /\ CanDrop(source, sourceIndex, destination, destinationIndex)
              /\ DragEnd(source, sourceIndex, destination, destinationIndex)
              /\ UNCHANGED sessionVars
    \/ ServeReorder /\ UNCHANGED sessionVars
    \/ ReorderUnanswered /\ UNCHANGED sessionVars
    \/ ReorderResolved /\ UNCHANGED sessionVars
    \/ ReorderRejected /\ UNCHANGED sessionVars
    \/ RefreshBoard /\ UNCHANGED sessionVars
    \/ ServeFetchBoard /\ UNCHANGED sessionVars
    \/ FetchBoardUnanswered /\ UNCHANGED sessionVars
    \/ RefreshResolved /\ UNCHANGED sessionVars
    \/ RefreshRejected /\ UNCHANGED sessionVars
    \/ \E itemId \in TxItemIds :
          DeleteItem(TxProject, BoardSecret, itemId) /\ UNCHANGED clientVars
    \/ DeleteProject(TxProject, BoardSecret) /\ UNCHANGED clientVars

SpecClient == InitClient /\ [][NextClient]_vars

(***************************************************************************)
(* The session model: one browser with the board of a project open, and    *)
(* the server it talks to.  Every handler of the App runs up to its await; *)
(* its request is handled by the server at some later moment, and its      *)
(* continuation runs when the answer arrives, so that the requests of the  *)
(* session overlap wherever the controls allow it.  The columns hold item  *)
(* values.                                                                 *)
(***************************************************************************)
\* handler invocations over a run of the session model
MaxCalls == 2
\* randomUUID calls made by createItem over a run of the session model
MaxSessionItems == 3
\* the largest index a drag result carries
MaxDropIndex == 2

\* an invocation of a handler: the handler, where it stands ("sent": its
\* request is on its way; "answered": the answer is on its way back;
\* "settled": the handler has returned), its closure (previous, status,
\* itemId), the body of a reorder request, the answer, and whether one of
\* its requests was rejected
NoCall ==
    [kind |-> "none", phase |-> "settled", previous |-> createEmptyColumns,
     status |-> "none", itemId |-> 0, payload |-> createEmptyColumns,
     reply |-> NoResponse, failed |-> FALSE]

InFlight(n) == calls[n].phase \in {"sent", "answered"}

\* the handler has returned: its closure is garbage
Settled(call, failed) ==
    [NoCall EXCEPT !.kind = call.kind, !.failed = call.failed \/ failed]

\* columnsToIds, on item values
columnsToIdsOf(values) ==
    [status \in Range(COLUMN_ORDER) |->
        [i \in 1..Len(values[status]) |-> values[status][i].id]]

\* response.ok of fetch: a status from 200 to 299
Ok(answer) == answer.status >= 200 /\ answer.status <= 299

\* the items createItem requests in flight will still be given ids for
AddsInFlight ==
    Cardinality({n \in DOMAIN calls : calls[n].kind = "add" /\ calls[n].phase = "sent"})

Shows(itemId) ==
    \E status \in Range(COLUMN_ORDER) :
        \E i \in 1..Len(columnsState[status]) : columnsState[status][i].id = itemId

\* the App state and the store that a step of another part leaves alone
sessionRest == <<heap, boardColumns, previous, clientPc, reorderCalls, reply,
                 fetched, shown>>

\* handleAddItem, up to the await of api.createItem; AddCardForm is disabled
\* while busy
handleAddItem(status) ==
    /\ ~busy
    /\ Len(calls) < MaxCalls
    /\ nextItemId + AddsInFlight <= MaxSessionItems
    /\ error' = ""
    /\ busy' = TRUE
    /\ calls' = Append(calls, [NoCall EXCEPT !.kind = "add", !.phase = "sent",
                                             !.previous = columnsState,
                                             !.status = status])
    /\ UNCHANGED <<columnsState, dropped, sessionRest, serverVars>>

\* handleUpdateItem, up to the await of api.updateItem; the drawer's form is
\* disabled while busy
handleUpdateItem(itemId) ==
    /\ ~busy
    /\ Len(calls) < MaxCalls
    /\ Shows(itemId)
    /\ error' = ""
    /\ busy' = TRUE
    /\ calls' = Append(calls, [NoCall EXCEPT !.kind = "update", !.phase = "sent",
                                             !.previous = columnsState,
                                             !.itemId = itemId])
    /\ UNCHANGED <<columnsState, dropped, sessionRest, serverVars>>

\* handleDeleteItem, up to the await of api.deleteItem; the card's button is
\* disabled while busy
handleDeleteItem(itemId) ==
    /\ ~busy
    /\ Len(calls) < MaxCalls
    /\ Shows(itemId)
    /\ error' = ""
    /\ busy' = TRUE
    /\ calls' = Append(calls, [NoCall EXCEPT !.kind = "delete", !.phase = "sent",
                                             !.previous = columnsState,
                                             !.itemId = itemId])
    /\ UNCHANGED <<columnsState, dropped, sessionRest, serverVars>>

\* handleDragEnd that moves the card and leaves its status field as it was
handleDragEndKeepsStatus(result) ==
    LET sourceItems == columnsState[result.source]
        moved == sourceItems[result.sourceIndex + 1]
        spliced == [columnsState EXCEPT
                       ![result.source] = removeAt(@, result.sourceIndex)]
        optimistic == [spliced EXCEPT
                          ![result.destination] =
                              insertAt(@, result.destinationIndex, moved)]
        returns == \/ result.destination = "none"
                   \/ /\ result.destination = result.source
                      /\ result.destinationIndex = result.sourceIndex
                   \/ result.sourceIndex >= Len(sourceItems)
    IN  /\ returns \/ Len(calls) < MaxCalls
        /\ dropped' = result
        /\ IF returns
           THEN UNCHANGED <<columnsState, error, calls>>
           ELSE /\ columnsState' = optimistic
                /\ error' = ""
                /\ calls' = Append(calls,
                               [NoCall EXCEPT !.kind = "drag", !.phase = "sent",
                                              !.previous = columnsState,
                                              !.payload = columnsToIdsOf(optimistic)])
        /\ UNCHANGED <<busy, sessionRest, serverVars>>

\* handleDragEnd without its return for a drop at the place of the pick-up
handleDragEndAlwaysMoves(result) ==
    LET sourceItems == columnsState[result.source]
        moved == [sourceItems[result.sourceIndex + 1] EXCEPT
                     !.status = result.destination]
        spliced == [columnsState EXCEPT
                       ![result.source] = removeAt(@, result.sourceIndex)]
        optimistic == [spliced EXCEPT
                          ![result.destination] =
                              insertAt(@, result.destinationIndex, moved)]
        returns == \/ result.destination = "none"
                   \/ result.sourceIndex >= Len(sourceItems)
    IN  /\ returns \/ Len(calls) < MaxCalls
        /\ dropped' = result
        /\ IF returns
           THEN UNCHANGED <<columnsState, error, calls>>
           ELSE /\ columnsState' = optimistic
                /\ error' = ""
                /\ calls' = Append(calls,
                               [NoCall EXCEPT !.kind = "drag", !.phase = "sent",
                                              !.previous = columnsState,
                                              !.payload = columnsToIdsOf(optimistic)])
        /\ UNCHANGED <<busy, sessionRest, serverVars>>

\* handleDragEnd, up to the await of api.reorderItems; no control keeps a
\* card from being dragged while busy.  It returns at once for a drop outside
\* the columns, for a drop at the place of the pick-up and for a source index
\* that holds no card.
handleDragEnd(result) ==
    LET sourceItems == columnsState[result.source]
        moved == [sourceItems[result.sourceIndex + 1] EXCEPT
                     !.status = result.destination]
        spliced == [columnsState EXCEPT
                       ![result.source] = removeAt(@, result.sourceIndex)]
        optimistic == [spliced EXCEPT
                          ![result.destination] =
                              insertAt(@, result.destinationIndex, moved)]
        returns == \/ result.destination = "none"
                   \/ /\ result.destination = result.source
                      /\ result.destinationIndex = result.sourceIndex
                   \/ result.sourceIndex >= Len(sourceItems)
    IN  /\ returns \/ Len(calls) < MaxCalls
        /\ dropped' = result
        /\ IF returns
           THEN UNCHANGED <<columnsState, error, calls>>
           ELSE /\ columnsState' = optimistic
                /\ error' = ""
                /\ calls' = Append(calls,
                               [NoCall EXCEPT !.kind = "drag", !.phase = "sent",
                                              !.previous = columnsState,
                                              !.payload = columnsToIdsOf(optimistic)])
        /\ UNCHANGED <<busy, sessionRest, serverVars>>

\* refreshBoard called by the Refresh button, up to the await of fetchBoard;
\* the button is disabled while busy
refreshBoard ==
    /\ ~busy
    /\ Len(calls) < MaxCalls
    /\ busy' = TRUE
    /\ error' = ""
    /\ calls' = Append(calls, [NoCall EXCEPT !.kind = "refresh", !.phase = "sent"])
    /\ UNCHANGED <<columnsState, dropped, sessionRest, serverVars>>

\* the server handles the request of the n-th invocation
Serve(n) ==
    /\ n \in DOMAIN calls
    /\ calls[n].phase = "sent"
    /\ \/ /\ calls[n].kind = "add"
          /\ HasItemId(MaxSessionItems, TxProject, BoardSecret, <<"t">>, <<>>,
                       calls[n].status)
          /\ PostItems(TxProject, BoardSecret, <<"t">>, <<>>, calls[n].status)
       \/ /\ calls[n].kind = "update"
          /\ PatchItem(TxProject, BoardSecret, calls[n].itemId, <<"u">>, <<>>,
                       UndefinedStatus)
       \/ /\ calls[n].kind = "delete"
          /\ DeleteItem(TxProject, BoardSecret, calls[n].itemId)
       \/ /\ calls[n].kind = "drag"
          /\ PostReorder(TxProject, BoardSecret, calls[n].payload)
       \/ /\ calls[n].kind = "refresh"
          /\ GetItems(TxProject, BoardSecret)
    /\ calls' = [calls EXCEPT ![n].phase = "answered", ![n].reply = response']
    /\ UNCHANGED <<columnsState, error, busy, dropped, sessionRest>>

\* request(): fetch rejects, the request of the n-th invocation is lost
Unanswered(n) ==
    /\ n \in DOMAIN calls
    /\ calls[n].phase = "sent"
    /\ calls' = [calls EXCEPT ![n].phase = "answered", ![n].reply = NetworkError]
    /\ UNCHANGED <<columnsState, error, busy, dropped, sessionRest, serverVars>>

\* handleAddItem after the await
AddSettles(n) ==
    LET call == calls[n] IN
    /\ n \in DOMAIN calls
    /\ call.kind = "add" /\ call.phase = "answered"
    /\ IF Ok(call.reply)
       THEN /\ columnsState' = [columnsState EXCEPT
                                   ![call.status] = Append(@, call.reply.body.item)]
            /\ UNCHANGED error
       ELSE /\ columnsState' = call.previous
            /\ error' = call.reply.body.error
    /\ busy' = FALSE
    /\ calls' = [calls EXCEPT ![n] = Settled(call, ~Ok(call.reply))]
    /\ UNCHANGED <<dropped, sessionRest, serverVars>>

\* handleUpdateItem after the await
UpdateSettles(n) ==
    LET call == calls[n]
        updated == call.reply.body.item
    IN  /\ n \in DOMAIN calls
        /\ call.kind = "update" /\ call.phase = "answered"
        /\ IF Ok(call.reply)
           THEN /\ columnsState' =
                      [columnsState EXCEPT
                          ![updated.status] =
                              [i \in 1..Len(@) |->
                                  IF @[i].id = call.itemId THEN updated ELSE @[i]]]
                /\ UNCHANGED error
           ELSE /\ columnsState' = call.previous
                /\ error' = call.reply.body.error
        /\ busy' = FALSE
        /\ calls' = [calls EXCEPT ![n] = Settled(call, ~Ok(call.reply))]
        /\ UNCHANGED <<dropped, sessionRest, serverVars>>

\* handleDeleteItem after the await
DeleteSettles(n) ==
    LET call == calls[n]
        Other(item) == item.id # call.itemId
    IN  /\ n \in DOMAIN calls
        /\ call.kind = "delete" /\ call.phase = "answered"
        /\ IF Ok(call.reply)
           THEN /\ columnsState' = [status \in Range(COLUMN_ORDER) |->
                                       SelectSeq(columnsState[status], Other)]
                /\ UNCHANGED error
           ELSE /\ columnsState' = call.previous
                /\ error' = call.reply.body.error
        /\ busy' = FALSE
        /\ calls' = [calls EXCEPT ![n] = Settled(call, ~Ok(call.reply))]
        /\ UNCHANGED <<dropped, sessionRest, serverVars>>

\* handleDragEnd after the await.  Its catch block runs refreshBoard up to
\* the await of fetchBoard in the same turn: setColumns(previous), setError
\* (message), then setBusy(true), setError('') and the board is fetched
DragSettles(n) ==
    LET call == calls[n] IN
    /\ n \in DOMAIN calls
    /\ call.kind = "drag" /\ call.phase = "answered"
    /\ IF Ok(call.reply)
       THEN /\ columnsState' = call.reply.body.columns
            /\ calls' = [calls EXCEPT ![n] = Settled(call, FALSE)]
            /\ UNCHANGED <<error, busy>>
       ELSE /\ columnsState' = call.previous
            /\ error' = ""
            /\ busy' = TRUE
            /\ calls' = [calls EXCEPT ![n] =
                            [NoCall EXCEPT !.kind = "refresh", !.phase = "sent",
                                           !.failed = TRUE]]
    /\ UNCHANGED <<dropped, sessionRest, serverVars>>

\* refreshBoard after the await
RefreshSettles(n) ==
    LET call == calls[n] IN
    /\ n \in DOMAIN calls
    /\ call.kind = "refresh" /\ call.phase = "answered"
    /\ IF Ok(call.reply)
       THEN /\ columnsState' = call.reply.body.columns
            /\ UNCHANGED error
       ELSE /\ error' = call.reply.body.error
            /\ UNCHANGED columnsState
    /\ busy' = FALSE
    /\ calls' = [calls EXCEPT ![n] = Settled(call, ~Ok(call.reply))]
    /\ UNCHANGED <<dropped, sessionRest, serverVars>>

\* the columns the session uses
SessionColumns == {"backlog", "done"}

\* the stored items when the board is loaded: one card, or two in a column
SessionBoards ==
    {[i \in 1..n |->
        [id |-> i, projectId |-> TxProject, title |-> <<"t">>,
         description |-> <<>>, status |-> "backlog", position |-> i]] :
     n \in 1..2}

\* the drag results: a card picked up at any place of the session's columns
\* and dropped at any place of them, or outside every column
DragResults ==
    [source : SessionColumns, sourceIndex : 0..MaxDropIndex,
     destination : SessionColumns, destinationIndex : 0..MaxDropIndex]
    \cup [source : SessionColumns, sourceIndex : 0..MaxDropIndex,
          destination : {"none"}, destinationIndex : {0}]

\* the board of the stored project, loaded: applyBoard after fetchBoard
InitSession ==
    /\ backend = "file"
    /\ projects = <<[id |-> TxProject, name |-> <<"n">>,
                     secretKey |-> BoardSecret, createdAt |-> 1]>>
    /\ items \in SessionBoards
    /\ nextProjectId = TxProject + 1
    /\ nextItemId = Len(items) + 1
    /\ clock = 2
    /\ request = NoRequest
    /\ response = NoResponse
    /\ pc = "idle"
    /\ todo = <<>>
    /\ work = <<>>
    /\ snapshot = <<>>
    /\ observed = NoListing
    /\ Undisturbed
    /\ heap = [r \in Refs |-> NoObject]
    /\ boardColumns = createEmptyColumns
    /\ previous = createEmptyColumns
    /\ clientPc = "closed"
    /\ reorderCalls = 0
    /\ reply = NoResponse
    /\ fetched = NoResponse
    /\ shown = createEmptyColumns
    /\ error = ""
    /\ busy = FALSE
    /\ columnsState = groupItemsByStatus(getItemsByProject(Data, TxProject))
    /\ calls = <<>>
    /\ dropped = NoDrop

NextSession ==
    \/ \E status \in SessionColumns : handleAddItem(status)
    \/ \E itemId \in 1..MaxSessionItems : handleUpdateItem(itemId)
    \/ \E itemId \in 1..MaxSessionItems : handleDeleteItem(itemId)
    \/ \E result \in DragResults : handleDragEnd(result)
    \/ refreshBoard
    \/ \E n \in 1..MaxCalls : Serve(n)
    \/ \E n \in 1..MaxCalls : Unanswered(n)
    \/ \E n \in 1..MaxCalls : AddSettles(n)
    \/ \E n \in 1..MaxCalls : UpdateSettles(n)
    \/ \E n \in 1..MaxCalls : DeleteSettles(n)
    \/ \E n \in 1..MaxCalls : DragSettles(n)
    \/ \E n \in 1..MaxCalls : RefreshSettles(n)

SpecSession == InitSession /\ [][NextSession]_vars

(***************************************************************************)
(* Properties.                                                             *)
(***************************************************************************)
RoutePostProjects == "POST /api/projects"
RoutePostAccess == "POST /api/access"
RouteGetProjects == "GET /api/projects"
RoutePostItems == "POST /api/projects/:projectId/items"
RoutePostReorder == "POST /api/projects/:projectId/items/reorder"

\* the routes that take a :projectId
ProjectRoutes ==
    {"GET /api/projects/:projectId", "DELETE /api/projects/:projectId",
     "GET /api/projects/:projectId/items", RoutePostItems,
     "PATCH /api/projects/:projectId/items/:itemId",
     "DELETE /api/projects/:projectId/items/:itemId", RoutePostReorder}

MutatingRoutes ==
    {"DELETE /api/projects/:projectId", RoutePostItems,
     "PATCH /api/projects/:projectId/items/:itemId",
     "DELETE /api/projects/:projectId/items/:itemId", RoutePostReorder}

Ids(its) == [i \in DOMAIN its |-> its[i].id]

Positions(its) == [i \in DOMAIN its |-> its[i].position]

ItemsOf(its, projectId) ==
    LET OfProject(item) == item.projectId = projectId IN SelectSeq(its, OfProject)

\* C1: no two items of the same project and the same status have the same
\* position, in every reachable state of the store
C1_UniquePositions ==
    \A i, j \in DOMAIN items :
        (/\ i # j
         /\ items[i].projectId = items[j].projectId
         /\ items[i].status = items[j].status)
            => items[i].position # items[j].position

\* the ids of all columns of a reorder payload, in the order they are applied
Flatten(columns) ==
    columns["backlog"] \o columns["in_progress"] \o columns["review"]
        \o columns["done"]

\* the payload lists every item of the project exactly once, and nothing else
IsFullPermutation(columns, its) ==
    LET flat == Flatten(columns) IN
    /\ Len(flat) = Len(its)
    /\ \A i \in DOMAIN its :
          Cardinality({k \in DOMAIN flat : flat[k] = its[i].id}) = 1

ReorderAnswered ==
    /\ request.route = RoutePostReorder
    /\ response.status = 200
    /\ IsFullPermutation(request.columns, ItemsOf(items, request.projectId))

\* C2: a reorder whose payload lists every item of the project exactly once
\* is answered with, for every status, the supplied ids in the supplied order,
\* carrying positions 1..N
C2_FullReorderResponse ==
    ReorderAnswered =>
        \A status \in Range(VALID_STATUSES) :
            LET column == response.body.columns[status] IN
            /\ Ids(column) = request.columns[status]
            /\ Positions(column) = [i \in DOMAIN column |-> i]
            /\ \A i \in DOMAIN column : column[i].status = status

\* a full reorder that put item 2 before item 1 in one column
C2_Witness ==
    /\ ReorderAnswered
    /\ \E status \in Range(VALID_STATUSES) : request.columns[status] = <<2, 1>>

\* what the reorder in flight stores when every write of it is made
AllPlaced ==
    LET columns == IF backend = "postgres"
                   THEN arrayOrEmpty(request.columns) ELSE request.columns
        placed == placeColumns(snapshot, TxProject, columns, 1)
    IN  IF placed.threw THEN snapshot ELSE placed.items

\* C3: a reorder is atomic: the stored items are those before the request
\* until all its writes are stored at once, a failed reorder leaves them as
\* they were, and a concurrent listing shows the board before or after the
\* whole reorder, never between
C3_ReorderAtomic ==
    /\ pc = "placing" => items = snapshot
    /\ pc = "done" =>
          IF response.status = 200 THEN items = AllPlaced ELSE items = snapshot
    /\ observed # NoListing =>
          observed[1] \in {Listing(snapshot), Listing(AllPlaced)}

\* a reorder that failed after its first write, with a listing read
\* meanwhile
C3_Witness ==
    /\ pc = "done"
    /\ response.status = 400
    /\ work # snapshot
    /\ items = snapshot
    /\ observed # NoListing

\* C4: a created item gets position 1 in an empty column and max+1
\* otherwise, above every item already in the column, and no existing item
\* changes
C4_CreateAppends ==
    [][(request'.route = RoutePostItems /\ response'.status = 201) =>
        LET new == response'.body.item
            column == {i \in DOMAIN items :
                          /\ items[i].projectId = new.projectId
                          /\ items[i].status = new.status}
        IN  /\ new.projectId = request'.projectId
            /\ new.status = (IF request'.status = UndefinedStatus
                             THEN "backlog" ELSE request'.status)
            /\ column = {} => new.position = 1
            /\ column # {} =>
                  new.position = SetMax({items[i].position : i \in column}) + 1
            /\ \A i \in column : items[i].position < new.position
            /\ items' = Append(items, new)]_vars

\* an item created into a column that held an item at position 2
C4_Witness ==
    /\ request.route = RoutePostItems
    /\ response.status = 201
    /\ response.body.item.position = 3
    /\ Len(items) = 2

\* C5: no two stored projects have the same secret key, compared after
\* trimming, so a lookup by secret matches at most one project
C5_UniqueSecrets ==
    /\ \A i, j \in DOMAIN projects :
          i # j => trim(projects[i].secretKey) # trim(projects[j].secretKey)
    /\ \A secretKey \in BodySecrets :
          Cardinality({i \in DOMAIN projects :
                          projects[i].secretKey = trim(OrEmpty(secretKey))}) <= 1

\* two projects stored, the second created after the first was deleted and
\* its key reused
C5_Witness ==
    /\ Len(projects) = 1
    /\ projects[1].id = 2
    /\ projects[1].secretKey = <<"a">>
    /\ request.route = RoutePostProjects
    /\ request.secretKey = <<"a", " ">>

\* C6: creating a project with the secret key of an existing project fails
\* with 400, whatever the names, and changes nothing
C6_DuplicateSecretRejected ==
    [][(/\ request'.route = RoutePostProjects
        /\ \E i \in DOMAIN projects : projects[i].secretKey = request'.secretKey)
          => /\ response'.status = 400
             /\ "error" \in DOMAIN response'.body
             /\ projects' = projects
             /\ items' = items]_vars

\* a creation refused for its key, under a name no stored project has
C6_Witness ==
    /\ request.route = RoutePostProjects
    /\ response = ErrorReply(400, "Secret key already exists. Choose a different one.")
    /\ Len(projects) = 1
    /\ projects[1].secretKey = request.secretKey
    /\ projects[1].name # trim(request.name)

\* the answers of requireProjectSecret when it does not call next()
NotFoundReply == ErrorReply(404, "Project not found.")
ForbiddenReply == ErrorReply(403, "Invalid secret key for this project.")

\* C7: on every route with a :projectId, an unknown id is answered 404
\* whatever the secret, a secret that differs from the stored one 403, only
\* the stored secret reaches the handler, and a denied request changes nothing
C7_Gate ==
    [][request'.route \in ProjectRoutes =>
        LET project == getProjectById(Data, request'.projectId)
            presented == OrEmpty(request'.secret)
        IN  /\ project = <<>> =>
                  response' = NotFoundReply /\ projects' = projects /\ items' = items
            /\ (project # <<>> /\ project[1].secretKey # presented) =>
                  response' = ForbiddenReply /\ projects' = projects /\ items' = items
            /\ (project # <<>> /\ project[1].secretKey = presented) =>
                  response' \notin {NotFoundReply, ForbiddenReply}
            /\ NotFoundReply.status # ForbiddenReply.status]_vars

\* a mutating request on a project that holds an item, denied for its secret
C7_Witness ==
    /\ request.route \in MutatingRoutes
    /\ response = ForbiddenReply
    /\ \E i \in DOMAIN items : items[i].projectId = request.projectId

\* the request carries the secret key, in its header or in its body
Presents(req, secretKey) ==
    \/ OrEmpty(req.secret) = secretKey
    \/ trim(OrEmpty(req.secretKey)) = secretKey

\* the project objects and the items of a response body
ProjectsShown(resp) ==
    (IF "project" \in DOMAIN resp.body THEN {resp.body.project.id} ELSE {})
    \cup (IF "projects" \in DOMAIN resp.body
          THEN {resp.body.projects[i].id : i \in DOMAIN resp.body.projects}
          ELSE {})
    \cup (IF "item" \in DOMAIN resp.body THEN {resp.body.item.projectId} ELSE {})
    \cup (IF "columns" \in DOMAIN resp.body
          THEN UNION {{resp.body.columns[status][i].projectId :
                          i \in DOMAIN resp.body.columns[status]} :
                      status \in Range(VALID_STATUSES)}
          ELSE {})

\* C8: no request returns a project's metadata or items, or changes them,
\* unless it presents that project's secret key
C8_EveryCallGated ==
    [][\A projectId \in ProjectIds :
          LET after == getProjectById([projects |-> projects', items |-> items'],
                                      projectId)
              before == getProjectById(Data, projectId)
              stored == IF before # <<>> THEN before ELSE after
          IN  (\/ projectId \in ProjectsShown(response')
               \/ before # after
               \/ ItemsOf(items, projectId) # ItemsOf(items', projectId))
                 => (stored # <<>> /\ Presents(request', stored[1].secretKey))]_vars

SecretShown(resp) ==
    \/ "project" \in DOMAIN resp.body /\ "secretKey" \in DOMAIN resp.body.project
    \/ /\ "projects" \in DOMAIN resp.body
       /\ \E i \in DOMAIN resp.body.projects :
             "secretKey" \in DOMAIN resp.body.projects[i]

\* C9: no response contains the secret key field of a project object
C9_SecretNeverReturned == ~SecretShown(response)

\* a project listing that returned two project objects
C9_Witness ==
    /\ request.route = RouteGetProjects
    /\ Len(response.body.projects) = 2
    /\ \A i \in DOMAIN response.body.projects :
          DOMAIN response.body.projects[i] = {"id", "name", "createdAt"}

AccessReturns(project) ==
    /\ response.status = 200
    /\ response.body.project.id = project.id
    /\ response.body.project.name = project.name

\* C10 as stated: an access request with key K returns the stored project
\* whose secret is K, and 404 when no stored project has secret K or K is empty
C10_AccessByExactKey ==
    request.route = RoutePostAccess =>
        LET K == OrEmpty(request.secretKey) IN
        /\ \A i \in DOMAIN projects :
              projects[i].secretKey = K => AccessReturns(projects[i])
        /\ (K = <<>> \/ \A i \in DOMAIN projects : projects[i].secretKey # K)
              => response.status = 404

\* C10 amended: the key is compared after trimming
C10_AccessByTrimmedKey ==
    request.route = RoutePostAccess =>
        LET K == trim(OrEmpty(request.secretKey)) IN
        /\ \A i \in DOMAIN projects :
              projects[i].secretKey = K => AccessReturns(projects[i])
        /\ (K = <<>> \/ \A i \in DOMAIN projects : projects[i].secretKey # K)
              => response = ErrorReply(404, "Invalid secret key.")

\* the second of two stored projects, returned for its key sent with a
\* trailing blank
C10_Witness ==
    /\ request.route = RoutePostAccess
    /\ request.secretKey = <<"a", " ">>
    /\ Len(projects) = 2
    /\ AccessReturns(projects[2])

RoutePatchItem == "PATCH /api/projects/:projectId/items/:itemId"
RouteGetItems == "GET /api/projects/:projectId/items"
RouteDeleteProject == "DELETE /api/projects/:projectId"

\* the same reorder request, submitted again to the store as it is now
Resubmitted == reorderItems(Data, request.projectId, request.columns)

\* C11: a reorder payload submitted a second time right after the first gets
\* the same grouped response and leaves every item as the first left it
C11_ReorderIdempotent ==
    (request.route = RoutePostReorder /\ response.status = 200) =>
        /\ Resubmitted.error = ""
        /\ Resubmitted.data = Data
        /\ Reply(200, [columns |-> groupItemsByStatus(Resubmitted.items)]) = response

\* a reorder of a board of two items whose payload lists item 1 twice in a
\* column
C11_Witness ==
    /\ request.route = RoutePostReorder
    /\ response.status = 200
    /\ request.columns["backlog"] = <<1, 1>>
    /\ Len(items) = 2

StatusIndex(status) ==
    CHOOSE k \in DOMAIN VALID_STATUSES : VALID_STATUSES[k] = status

\* the id at index k of column status is listed again further on
ListedLater(columns, status, k) ==
    \E status2 \in Range(VALID_STATUSES) :
        \E k2 \in DOMAIN columns[status2] :
            /\ columns[status2][k2] = columns[status][k]
            /\ \/ StatusIndex(status2) > StatusIndex(status)
               \/ status2 = status /\ k2 > k

\* what an accepted reorder does to the stored items: every listed item (at
\* every place it is listed, or only at the last one) has the status and the
\* 1-based index of that place, every other item is as it was, and the items
\* stored are the same
ReorderSets(everyPlace) ==
    (request'.route = RoutePostReorder /\ response'.status = 200) =>
        LET columns == request'.columns IN
        /\ Len(items') = Len(items)
        /\ \A i \in DOMAIN items :
              /\ items'[i].id = items[i].id
              /\ items'[i].projectId = items[i].projectId
              /\ items'[i].title = items[i].title
              /\ items'[i].description = items[i].description
              /\ (\A status \in Range(VALID_STATUSES) :
                    \A k \in DOMAIN columns[status] :
                        columns[status][k] # items[i].id)
                    => items'[i] = items[i]
              /\ \A status \in Range(VALID_STATUSES) :
                    \A k \in DOMAIN columns[status] :
                        (/\ columns[status][k] = items[i].id
                         /\ items[i].projectId = request'.projectId
                         /\ everyPlace \/ ~ListedLater(columns, status, k))
                            => /\ items'[i].status = status
                               /\ items'[i].position = k

\* C12 as stated: for every status and every index of its sequence the item
\* listed there has that status and position index+1 afterwards
C12_ReorderSetsEveryListed == [][ReorderSets(TRUE)]_vars

\* C12 amended: an id listed more than once has the status and position of
\* the last place it is listed at, in the order backlog, in_progress, review,
\* done; unlisted items are unchanged and no item is created or deleted
C12_ReorderSetsLastListed == [][ReorderSets(FALSE)]_vars

\* a reorder that listed item 2 in two columns and left item 1 out
C12_Witness ==
    /\ request.route = RoutePostReorder
    /\ response.status = 200
    /\ request.columns["backlog"] = <<2>>
    /\ request.columns["done"] = <<2>>
    /\ Len(items) = 2
    /\ \E i \in DOMAIN items :
          items[i].id = 2 /\ items[i].status = "done" /\ items[i].position = 1

\* the index of the item a PATCH addresses, before the request
Patched(i) ==
    /\ request'.route = RoutePatchItem
    /\ i \in DOMAIN items
    /\ items[i].id = request'.itemId
    /\ items[i].projectId = request'.projectId

\* C13: an update that changes the status appends the item to the destination
\* column (max+1, or 1 when empty), so it is listed last there, and changes no
\* other item
C13_StatusChangeAppends ==
    [][\A i \in DOMAIN items :
          (/\ Patched(i)
           /\ response'.status = 200
           /\ request'.status # UndefinedStatus
           /\ request'.status # items[i].status) =>
             LET destination == {j \in DOMAIN items :
                                    /\ items[j].projectId = items[i].projectId
                                    /\ items[j].status = request'.status}
                 listed == groupItemsByStatus(getItemsByProject(
                              [projects |-> projects', items |-> items'],
                              request'.projectId))[request'.status]
             IN  /\ Len(items') = Len(items)
                 /\ items'[i].status = request'.status
                 /\ items'[i].position =
                       (IF destination = {} THEN 1
                        ELSE SetMax({items[j].position : j \in destination}) + 1)
                 /\ listed[Len(listed)].id = request'.itemId
                 /\ \A j \in DOMAIN items \ {i} : items'[j] = items[j]]_vars

\* item 1 moved behind item 2, which stands at position 2 of the destination
C13_Witness ==
    /\ request.route = RoutePatchItem
    /\ response.status = 200
    /\ request.itemId = 1
    /\ request.status = "done"
    /\ items[1].status = "done" /\ items[1].position = 3
    /\ items[2].status = "done" /\ items[2].position = 2

\* C14: an update with no status, or with the status the item has, leaves the
\* item's status and position and every other item as they were
C14_EditKeepsPosition ==
    [][\A i \in DOMAIN items :
          (/\ Patched(i)
           /\ request'.status \in {UndefinedStatus, items[i].status}) =>
             /\ Len(items') = Len(items)
             /\ items'[i].status = items[i].status
             /\ items'[i].position = items[i].position
             /\ \A j \in DOMAIN items \ {i} : items'[j] = items[j]]_vars

\* a title edit of item 2 that named the column the item is in
C14_Witness ==
    /\ request.route = RoutePatchItem
    /\ response.status = 200
    /\ request.itemId = 2
    /\ request.title = <<"u">>
    /\ request.status = "done"
    /\ items[2].title = <<"u">>
    /\ items[2].status = "done" /\ items[2].position = 2
    /\ items[1].status = "done"

\* C15: a grouped listing holds every stored item of the project exactly
\* once, in the column of its status, every column in ascending order of
\* position, and nothing else: no item of another project, no deleted item
C15_ListingComplete ==
    (request.route \in {RouteGetItems, RoutePostReorder} /\ response.status = 200) =>
        LET columns == response.body.columns
            stored == ItemsOf(items, request.projectId)
        IN  /\ \A i \in DOMAIN stored :
                  /\ Cardinality({k \in DOMAIN columns[stored[i].status] :
                                     columns[stored[i].status][k] = stored[i]}) = 1
                  /\ \A status \in Range(VALID_STATUSES) \ {stored[i].status} :
                        \A k \in DOMAIN columns[status] :
                            columns[status][k].id # stored[i].id
            /\ \A status \in Range(VALID_STATUSES) :
                  /\ \A k \in DOMAIN columns[status] :
                        /\ columns[status][k].status = status
                        /\ \E i \in DOMAIN stored : stored[i] = columns[status][k]
                  /\ \A k \in 1..(Len(columns[status]) - 1) :
                        columns[status][k].position <= columns[status][k + 1].position

\* a listing of one project's single item while the store holds an item of
\* the other project
C15_Witness ==
    /\ request.route = RouteGetItems
    /\ response.status = 200
    /\ Len(items) = 2
    /\ items[1].projectId # items[2].projectId
    /\ Len(Flatten(response.body.columns)) = 1

\* C16: every stored item belongs to a stored project, and a deleted
\* project leaves no item behind
C16_CascadeDelete ==
    /\ \A i \in DOMAIN items : getProjectById(Data, items[i].projectId) # <<>>
    /\ (request.route = RouteDeleteProject /\ response.status = 204) =>
          /\ getProjectById(Data, request.projectId) = <<>>
          /\ ItemsOf(items, request.projectId) = <<>>

\* a project deleted after two items were created, the other project's item
\* still stored
C16_Witness ==
    /\ request.route = RouteDeleteProject
    /\ response.status = 204
    /\ nextItemId = 3
    /\ Len(items) = 1
    /\ Len(projects) = 1
    /\ items[1].projectId = projects[1].id

\* C17: an update refused for a title that is empty after trimming or for an
\* invalid status is answered 400 and leaves the stored items as they were,
\* whatever valid fields the request also carried
C17_RejectedUpdateChangesNothing ==
    [][\A i \in DOMAIN items :
          (/\ Patched(i)
           /\ \/ request'.title # Undefined /\ trim(request'.title) = <<>>
              \/ /\ request'.status # UndefinedStatus
                 /\ request'.status \notin Range(VALID_STATUSES)) =>
             /\ response'.status = 400
             /\ "error" \in DOMAIN response'.body
             /\ items' = items
             /\ projects' = projects]_vars

\* an update with a valid title and description refused for its status
C17_Witness ==
    /\ request.route = RoutePatchItem
    /\ request.title = <<"u">>
    /\ request.description = <<"d", " ">>
    /\ request.status = "bogus"
    /\ response = ErrorReply(400, "Invalid status")
    /\ \E i \in DOMAIN items : items[i].id = request.itemId

\* the reorder call of the drag rejected and the handler took note of it;
\* no other drag began since
RejectedSince ==
    /\ clientPc \in {"rejected", "refreshing", "fetched", "idle"}
    /\ reply # NoResponse
    /\ reply.status # 200

\* C18: when the reorder call rejects, the columns are those shown before
\* the drag, item for item and field for field, until a re-fetch of the
\* board is answered; the re-fetch is made, and the reorder is called once
C18_RevertsToSnapshot ==
    /\ RejectedSince => reorderCalls = 1
    /\ (RejectedSince /\ clientPc # "idle") =>
          /\ boardColumns = previous
          /\ Deref(heap, boardColumns) = shown
    /\ (RejectedSince /\ clientPc = "idle") =>
          /\ fetched # NoResponse
          /\ fetched.status = 200 =>
                Deref(heap, boardColumns) = fetched.body.columns
          /\ fetched.status # 200 => Deref(heap, boardColumns) = shown

\* a card dragged from backlog to done, the call answered 404 and the
\* handler in its catch block
C18_Witness ==
    /\ clientPc = "rejected"
    /\ reply.status = 404
    /\ request.route = RoutePostReorder
    /\ \E i \in DOMAIN shown["backlog"], k \in DOMAIN request.columns["done"] :
          shown["backlog"][i].id = request.columns["done"][k]

\* C19: when the reorder call succeeds, the columns are the grouping the
\* server returned
C19_ServerGroupingReplaces ==
    (clientPc = "idle" /\ reply # NoResponse /\ reply.status = 200) =>
        Deref(heap, boardColumns) = reply.body.columns

\* a drag on a board of two cards answered with a grouping of one: the
\* other client deleted a card meanwhile
C19_Witness ==
    /\ clientPc = "idle"
    /\ reply # NoResponse
    /\ reply.status = 200
    /\ Len(Flatten(shown)) = 2
    /\ Len(Flatten(reply.body.columns)) = 1
    /\ Len(Flatten(boardColumns)) = 1

\* C20: from the rejection of the reorder call until the next drag the error
\* state holds a message, also after the re-fetch succeeded
C20_ErrorSurfaced == RejectedSince => error # ""

\* C30: every stored project has a secret key that is not empty, and a
\* request on a route with a :projectId that carries no secret, or an empty
\* one, is answered 404 or 403 by the gate and never reaches the handler
C30_SecretsNotEmpty ==
    /\ \A i \in DOMAIN projects : trim(projects[i].secretKey) # <<>>
    /\ (request.route \in ProjectRoutes /\ trim(OrEmpty(request.secret)) = <<>>)
          => response \in {NotFoundReply, ForbiddenReply}

\* a request without a secret on the routes of the one stored project,
\* refused
C30_Witness ==
    /\ request.route \in ProjectRoutes
    /\ request.secret = Undefined
    /\ getProjectById(Data, request.projectId) # <<>>
    /\ response = ForbiddenReply
    /\ nextProjectId = 2

RouteDeleteItem == "DELETE /api/projects/:projectId/items/:itemId"

\* the request names, by its :itemId or in its reorder payload, an item
\* stored for another project than the one of its route
NamesForeignItem(req, its) ==
    \E i \in DOMAIN its :
        /\ its[i].projectId # req.projectId
        /\ \/ req.route \in {RoutePatchItem, RouteDeleteItem} /\ req.itemId = its[i].id
           \/ /\ req.route = RoutePostReorder
              /\ its[i].id \in Range(Flatten(req.columns))

\* C26: a request on the routes of project P leaves the items of every other
\* project as they are (status, position, title and description, and their
\* order in the store); an update or a delete authorized for P that names an
\* item of another project is answered 404 "Item not found."
C26_OtherProjectsUntouched ==
    [][request'.route \in ProjectRoutes =>
        /\ \A projectId \in ProjectIds \ {request'.projectId} :
              ItemsOf(items', projectId) = ItemsOf(items, projectId)
        /\ (/\ request'.route \in {RoutePatchItem, RouteDeleteItem}
            /\ NamesForeignItem(request', items)
            /\ requireProjectSecret(Data, request'.projectId, request'.secret).next)
              => response' = ErrorReply(404, "Item not found.")]_vars

\* a reorder authorized for one project whose payload lists the item of
\* another: it is answered 200, and the other project's item is stored
C26_Witness ==
    /\ request.route = RoutePostReorder
    /\ response.status = 200
    /\ NamesForeignItem(request, items)
    /\ Len(projects) = 2

\* the handler of the request calls readData before it answers
CallsReadData(req) ==
    /\ req.route = RoutePostProjects =>
          trim(OrEmpty(req.name)) # <<>> /\ trim(OrEmpty(req.secretKey)) # <<>>
    /\ req.route = RoutePostAccess => trim(OrEmpty(req.secretKey)) # <<>>

\* C25: a request that reads a store file whose text does not parse is
\* answered as the empty store answers it (no 5xx): a project creation
\* succeeds and its project is the only one stored, every other request finds
\* no project; nothing the file held is kept, and the file parses afterwards
C25_MalformedStoreReset ==
    [][(malformed /\ CallsReadData(request')) =>
        /\ malformed' = FALSE
        /\ items' = DEFAULT_DATA.items
        /\ response'.status < 500
        /\ IF request'.route = RoutePostProjects
           THEN /\ response'.status = 201
                /\ Len(projects') = 1
                /\ projects'[1].id = nextProjectId
           ELSE /\ projects' = DEFAULT_DATA.projects
                /\ request'.route \in ProjectRoutes => response' = NotFoundReply
                /\ request'.route = RouteGetProjects =>
                      response' = Reply(200, [projects |-> <<>>])
                /\ request'.route = RoutePostAccess =>
                      response' = ErrorReply(404, "Invalid secret key.")]_vars

\* the file was damaged while it held project 1, and a request on that
\* project, with its secret, found the empty store
C25_Witness ==
    /\ ~malformed
    /\ projects = DEFAULT_DATA.projects
    /\ nextProjectId = 2
    /\ request.route \in ProjectRoutes
    /\ request.projectId = 1
    /\ response = NotFoundReply

\* C24: file-backed, a writer's write makes the stored document the copy it
\* read with its own item pushed on it, whatever was written since it read
\* (the last write wins)
C24_LastWriteWins ==
    [][\A w \in Writers :
          (backend = "file" /\ writers[w].pc = "read" /\ writers'[w].pc = "done") =>
              /\ projects' = writers[w].data.projects
              /\ Len(items') = Len(writers[w].data.items) + 1
              /\ SubSeq(items', 1, Len(items') - 1) = writers[w].data.items
              /\ items'[Len(items')].id = writers'[w].created]_vars

\* a lost update: two writers were given their items back, and the store
\* holds the item of one of them only
C24_Witness ==
    /\ backend = "file"
    /\ \E w, v \in Writers :
          /\ writers[w].pc = "done" /\ writers[v].pc = "done"
          /\ writers[w].created \notin Range(Ids(items))
          /\ writers[v].created \in Range(Ids(items))

\* C27: relational, two items that two writers placed at the end of the
\* same column of the project have different positions
C27_ConcurrentAppendsDiffer ==
    \A w, v \in Writers :
        \A i, j \in DOMAIN items :
            (/\ backend = "postgres"
             /\ writers[w].pc = "done" /\ writers[v].pc = "done"
             /\ items[i].id = writers[w].created
             /\ items[j].id = writers[v].created
             /\ items[i].id # items[j].id
             /\ items[i].status = items[j].status)
                => items[i].position # items[j].position

\* C21: the busy flag serialises the actions of the client: no action is
\* started while the request of another is in flight, so at most one
\* invocation of a handler is between its request and its answer at a time,
\* and no two drags overlap.
C21_ActionsNeverOverlap ==
    Cardinality({n \in DOMAIN calls : InFlight(n)}) <= 1

\* the place a drag result names holds a card of the columns
Found(result, values) == result.sourceIndex < Len(values[result.source])

\* the drop is at another place than the pick-up
Elsewhere(result) ==
    /\ result.destination # "none"
    /\ \/ result.destination # result.source
       \/ result.destinationIndex # result.sourceIndex

\* the step starts an invocation of handleDragEnd that sends a request
DragStarts ==
    /\ Len(calls') = Len(calls) + 1
    /\ calls'[Len(calls')].kind = "drag"

\* C22: on a drag whose destination differs from its source, the columns of
\* the client show the move as soon as the handler has run and before the
\* request is handled: the dragged item is gone from the source index, it is
\* at the destination index with its status set to the destination column,
\* every other item is where it was relative to the others, and the reorder
\* request, which the server receives unaltered, carries the ids of all four
\* columns of that state.
C22_OptimisticMoveThenRequest ==
    [][ /\ ((dropped' # dropped \/ DragStarts)
                /\ Elsewhere(dropped') /\ Found(dropped', columnsState))
            =>
            LET result == dropped'
                moved == columnsState[result.source][result.sourceIndex + 1]
                taken == [columnsState EXCEPT
                             ![result.source] = removeAt(@, result.sourceIndex)]
                place == IF result.destinationIndex > Len(taken[result.destination])
                         THEN Len(taken[result.destination])
                         ELSE result.destinationIndex
                call == calls'[Len(calls')]
            IN  /\ columnsState'[result.destination][place + 1] =
                       [moved EXCEPT !.status = result.destination]
                /\ [columnsState' EXCEPT ![result.destination] = removeAt(@, place)]
                       = taken
                /\ Len(calls') = Len(calls) + 1
                /\ call.kind = "drag" /\ call.phase = "sent"
                /\ \A status \in Range(COLUMN_ORDER) :
                       /\ Len(call.payload[status]) = Len(columnsState'[status])
                       /\ \A i \in 1..Len(columnsState'[status]) :
                              call.payload[status][i] = columnsState'[status][i].id
                /\ UNCHANGED serverVars
        /\ \A n \in DOMAIN calls :
               (calls[n].kind = "drag" /\ calls[n].phase = "sent"
                    /\ calls'[n].phase = "answered" /\ calls'[n].reply # NetworkError)
               => /\ request'.route = RoutePostReorder
                  /\ request'.columns = calls[n].payload
      ]_vars

\* a card dragged from one column to the other: it is shown in the
\* destination column with the status of that column while its request is on
\* its way with the ids of the shown columns
C22_Witness ==
    /\ calls # <<>>
    /\ calls[Len(calls)].kind = "drag"
    /\ calls[Len(calls)].phase = "sent"
    /\ dropped.source # dropped.destination
    /\ dropped.destination # "none"
    /\ Len(columnsState[dropped.destination]) > dropped.destinationIndex
    /\ columnsState[dropped.destination][dropped.destinationIndex + 1].status
           = dropped.destination
    /\ calls[Len(calls)].payload = columnsToIdsOf(columnsState)
    /\ Len(columnsState[dropped.destination]) >= 2

\* C23: a drag dropped on the same column at the same index, or one whose
\* source index holds no card of the client's columns, changes nothing: the
\* columns, the error, the busy flag and the snapshots of the invocations in
\* flight stay as they are, no request is started and the server is not
\* reached.
C23_NoOpDropChangesNothing ==
    [][ (/\ dropped' # dropped \/ DragStarts
         /\ dropped'.destination # "none"
         /\ \/ ~Elsewhere(dropped')
            \/ ~Found(dropped', columnsState))
        => UNCHANGED <<columnsState, error, busy, calls, serverVars>>
      ]_vars

\* a card dropped where it was picked up, on a board that shows an error
\* left by an earlier failure: the error is still shown
C23_Witness ==
    /\ dropped # NoDrop
    /\ dropped.source = dropped.destination
    /\ dropped.sourceIndex = dropped.destinationIndex
    /\ Found(dropped, columnsState)
    /\ error # ""

\* C28: each item id occurs at most once across the four columns of the
\* client, in every state it can reach, also while an add and a drag are in
\* flight together and whichever of their answers arrives first.
C28_IdsOccurOnce ==
    \A status \in Range(COLUMN_ORDER), other \in Range(COLUMN_ORDER) :
        \A i \in 1..Len(columnsState[status]), j \in 1..Len(columnsState[other]) :
            columnsState[status][i].id = columnsState[other][j].id
                => (status = other /\ i = j)

\* what GET items answers for the project of the session: the server's
\* grouped listing
ServerListing == groupItemsByStatus(getItemsByProject(Data, TxProject))

\* C29: with one client, no other writer and no failed request, once every
\* action of the client has completed the columns of the client list, for
\* each of the four columns, the ids of the server's grouped listing of the
\* project, in the same order.
C29_ClientMatchesServer ==
    (\A n \in DOMAIN calls : calls[n].phase = "settled" /\ ~calls[n].failed)
        => columnsToIdsOf(columnsState) = columnsToIdsOf(ServerListing)

=============================================================================
